---- MODULE Spec2Model ----
(***************************************************************************)
(* A model of the NHS medicine scraper (src/src/scraper.ts):               *)
(*   - getMedicineLinks: the catalog built from the index page's anchors,  *)
(*   - Semaphore: the counting gate that admits the per-link tasks,        *)
(*   - scrape: the run, one task per link, and the result it assembles,    *)
(*   - scrapeMedicineDetails / getSectionLinks / scrapeDetailedSections:   *)
(*     the extraction of one item, one step per awaited operation.         *)
(* JavaScript runs one job at a time: an action is the code that runs      *)
(* between two awaits.                                                     *)
(***************************************************************************)
EXTENDS Integers, Sequences, FiniteSets, TLC

(***************************************************************************)
(* Bounds of the model.                                                    *)
(***************************************************************************)
\* links on the index page of a run
MaxLinks == 3
\* largest capacity a run is constructed with
MaxPermits == 2
\* largest processing cap (options.limit) a run is constructed with
MaxLimit == 2
\* navigations of a run the environment may fail
MaxFaults == 3
\* anchors of an index page given to the catalog builder alone
MaxAnchors == 3
\* callers of the semaphore taken alone, and its largest capacity
MaxCallers == 5
MaxSemPermits == 3
\* links of the index page in the runs of the progress property
MaxLiveLinks == 2
\* words of a command line
MaxArgs == 3
\* words of a sentence given to the text functions
MaxWords == 3
\* details elements of a common questions page
MaxWidgets == 2
\* sibling elements of a section page
MaxElements == 3

(***************************************************************************)
(* Text: a string is a sequence of one-character strings.                  *)
(***************************************************************************)
Null == << "<null>" >>

\* the element of a set of one element: ranging over {e} binds the value of e,
\* which is then computed once
The(S) == CHOOSE v \in S : TRUE

IsSpace(c) == c \in {" ", "\n", "\t"}

RECURSIVE TrimStart(_)
TrimStart(s) ==
  IF s = << >> THEN << >>
  ELSE IF IsSpace(Head(s)) THEN TrimStart(Tail(s)) ELSE s

RECURSIVE TrimEnd(_)
TrimEnd(s) ==
  IF s = << >> THEN << >>
  ELSE IF IsSpace(s[Len(s)]) THEN TrimEnd(SubSeq(s, 1, Len(s) - 1)) ELSE s

\* String.prototype.trim
Trim(s) == TrimEnd(TrimStart(s))

\* replace(/\s+/g, ' ')
RECURSIVE CollapseSpaces(_)
CollapseSpaces(s) ==
  IF s = << >> THEN << >>
  ELSE IF IsSpace(Head(s))
       THEN << " " >> \o CollapseSpaces(TrimStart(s))
       ELSE << Head(s) >> \o CollapseSpaces(Tail(s))

\* String.prototype.includes
Includes(s, sub) ==
  \E str \in {s} :
    \E k \in 1..(Len(str) - Len(sub) + 1) : SubSeq(str, k, k + Len(sub) - 1) = sub

\* String.prototype.indexOf, 0-based, -1 when absent
IndexOf(s, sub) ==
  IF Includes(s, sub)
  THEN (CHOOSE k \in 1..(Len(s) - Len(sub) + 1) :
          /\ SubSeq(s, k, k + Len(sub) - 1) = sub
          /\ \A j \in 1..(k - 1) : SubSeq(s, j, j + Len(sub) - 1) # sub) - 1
  ELSE -1

\* String.prototype.slice(from), 0-based
SliceFrom(s, from) == SubSeq(s, from + 1, Len(s))

\* JavaScript truthiness of a string or null
Truthy(s) == s # Null /\ s # << >>

(***************************************************************************)
(* URLs.  An href is [origin, path, hash]: origin "" is a relative href,   *)
(* path is the sequence of "/" and segment tokens, hash "" is no fragment. *)
(***************************************************************************)
SiteOrigin == "https://www.nhs.uk"
MedicinesSeg == << "/", "medicines", "/" >>
IndexLocation == [origin |-> SiteOrigin, path |-> MedicinesSeg, hash |-> ""]
EmptyHref == [origin |-> "", path |-> << >>, hash |-> ""]

\* new URL(href, location.href)
ResolveUrl(href, location) ==
  [origin |-> IF href.origin = "" THEN location.origin ELSE href.origin,
   path   |-> IF href.path # << >> THEN href.path
              ELSE IF href.origin = "" THEN location.path ELSE << "/" >>,
   hash   |-> href.hash]

(***************************************************************************)
(* getMedicineLinks: the catalog of the index page.  An anchor is          *)
(* [href, text]; the Map keyed by absolute URL is the sequence of its      *)
(* values in insertion order.                                              *)
(***************************************************************************)
\* isMed without the test of the tail
isMedAnyTail(a) ==
  IF a.href = EmptyHref THEN FALSE
  ELSE IndexOf(ResolveUrl(a.href, IndexLocation).path, MedicinesSeg) # -1

\* isMed: only links with a non-empty path after "/medicines/"
isMed(a) ==
  IF a.href = EmptyHref THEN FALSE
  ELSE LET url  == ResolveUrl(a.href, IndexLocation)
           idx  == IndexOf(url.path, MedicinesSeg)
           tail == SliceFrom(url.path, idx + Len(MedicinesSeg))
       IN  IF idx = -1 THEN FALSE
           ELSE tail # << >> /\ tail # << "/" >> /\ Head(tail) # "#"

\* (a.textContent || '').trim().replace(/\s+/g, ' ')
AnchorName(a) == CollapseSpaces(Trim(a.text))

MedicinesAToZ ==
  << "M","e","d","i","c","i","n","e","s"," ","A"," ","t","o"," ","Z" >>
OverviewDash == << "O","v","e","r","v","i","e","w"," ","-" >>
SeeSpace == << "s","e","e"," " >>
MinNameLen == 1
MaxNameLen == 100

\* isValid: filter out unwanted entries
isValid(name) ==
  /\ name # MedicinesAToZ
  /\ ~Includes(name, OverviewDash)
  /\ ~Includes(name, SeeSpace)
  /\ Len(name) > MinNameLen
  /\ Len(name) < MaxNameLen

MapHas(set, url) == \E k \in 1..Len(set) : set[k].url = url
MapIndex(set, url) == CHOOSE k \in 1..Len(set) : set[k].url = url

\* Map.set: a new key goes last, an existing key keeps its place
MapSet(set, url, entry) ==
  IF MapHas(set, url) THEN [set EXCEPT ![MapIndex(set, url)] = entry]
  ELSE Append(set, entry)

\* CatalogStep with the test for an existing entry left out
CatalogStepOverwrite(set, a) ==
  LET url  == ResolveUrl(a.href, IndexLocation)
      name == AnchorName(a)
  IN  IF isValid(name)
      THEN MapSet(set, url, [name |-> IF Truthy(name) THEN name ELSE Null,
                             url  |-> url])
      ELSE set

\* the body of anchors.filter(isMed).forEach(...)
CatalogStep(set, a) ==
  LET url  == ResolveUrl(a.href, IndexLocation)
      name == AnchorName(a)
  IN  IF isValid(name)
         /\ (~MapHas(set, url)
              \/ (~Truthy(set[MapIndex(set, url)].name) /\ Truthy(name)))
      THEN MapSet(set, url, [name |-> IF Truthy(name) THEN name ELSE Null,
                             url  |-> url])
      ELSE set

RECURSIVE CatalogFold(_, _)
CatalogFold(set, anchors) ==
  IF anchors = << >> THEN set
  ELSE The({CatalogFold(next, rest) :
              next \in {IF isMed(Head(anchors)) THEN CatalogStep(set, Head(anchors))
                        ELSE set},
              rest \in {Tail(anchors)}})

\* what page.evaluate returns in getMedicineLinks
MedicineLinks(anchors) == CatalogFold(<< >>, anchors)

(***************************************************************************)
(* Semaphore.  waitQueue holds the callers whose promise is unresolved.    *)
(***************************************************************************)
\* acquire() with the test permits >= 0
SemAcquireNoWait(p, q, c) ==
  IF p >= 0 THEN [permits |-> p - 1, waitQueue |-> q, granted |-> TRUE]
  ELSE [permits |-> p, waitQueue |-> Append(q, c), granted |-> FALSE]

\* acquire() that puts a waiter at the front of the queue (unshift)
SemAcquireAtFront(p, q, c) ==
  IF p > 0 THEN [permits |-> p - 1, waitQueue |-> q, granted |-> TRUE]
  ELSE [permits |-> p, waitQueue |-> << c >> \o q, granted |-> FALSE]

\* acquire(): [permits, waitQueue, granted] after the call by caller c
SemAcquire(p, q, c) ==
  IF p > 0 THEN [permits |-> p - 1, waitQueue |-> q, granted |-> TRUE]
  ELSE [permits |-> p, waitQueue |-> Append(q, c), granted |-> FALSE]

\* release() that takes the last waiter (pop) instead of the first (shift)
SemReleaseLast(p, q) ==
  IF Len(q) > 0
  THEN [permits |-> (p + 1) - 1, waitQueue |-> SubSeq(q, 1, Len(q) - 1),
        woken |-> {q[Len(q)]}]
  ELSE [permits |-> p + 1, waitQueue |-> q, woken |-> {}]

\* release() that never resumes a waiter
SemReleaseNoWake(p, q) == [permits |-> p + 1, waitQueue |-> q, woken |-> {}]

\* release() that wakes the first waiter without taking the freed permit back
SemReleaseKeepPermit(p, q) ==
  IF Len(q) > 0
  THEN [permits |-> p + 1, waitQueue |-> Tail(q), woken |-> {Head(q)}]
  ELSE [permits |-> p + 1, waitQueue |-> q, woken |-> {}]

\* release(): [permits, waitQueue, woken]; woken is the set of callers resumed
SemRelease(p, q) ==
  IF Len(q) > 0
  THEN [permits |-> (p + 1) - 1, waitQueue |-> Tail(q), woken |-> {Head(q)}]
  ELSE [permits |-> p + 1, waitQueue |-> q, woken |-> {}]

(***************************************************************************)
(* getSectionLinks: the section link map of a detail page.                 *)
(***************************************************************************)
UpperCase == << "A","B","C","D","E","F","G","H","I","J","K","L","M","N","O","P","Q","R","S","T","U","V","W","X","Y","Z" >>
LowerCase == << "a","b","c","d","e","f","g","h","i","j","k","l","m","n","o","p","q","r","s","t","u","v","w","x","y","z" >>

LowerChar(c) ==
  IF \E k \in 1..Len(UpperCase) : UpperCase[k] = c
  THEN LowerCase[CHOOSE k \in 1..Len(UpperCase) : UpperCase[k] = c]
  ELSE c

\* String.prototype.toLowerCase
ToLower(s) == [k \in 1..Len(s) |-> LowerChar(s[k])]

\* the keys of the link map, in the order of the if-chain
LinkKeys ==
  << "about", "whoCanTake", "howAndWhenToTake", "sideEffects", "pregnancy",
     "interactions", "commonQuestions" >>
LinkKeySet == {LinkKeys[k] : k \in 1..Len(LinkKeys)}

\* the phrases one branch of the if-chain looks for
Keywords(key) ==
  CASE key = "about"            -> { << "a","b","o","u","t" >> }
    [] key = "whoCanTake"       -> { << "w","h","o"," ","c","a","n" >>,
                                     << "c","a","n","n","o","t"," ","t","a","k","e" >> }
    [] key = "howAndWhenToTake" -> { << "h","o","w"," ","a","n","d"," ","w","h","e","n" >>,
                                     << "h","o","w"," ","t","o"," ","t","a","k","e" >> }
    [] key = "sideEffects"      -> { << "s","i","d","e"," ","e","f","f","e","c","t" >> }
    [] key = "pregnancy"        -> { << "p","r","e","g","n","a","n","c","y" >>,
                                     << "b","r","e","a","s","t","f","e","e","d","i","n","g" >>,
                                     << "f","e","r","t","i","l","i","t","y" >> }
    [] key = "interactions"     -> { << "t","a","k","i","n","g"," ","w","i","t","h" >>,
                                     << "o","t","h","e","r"," ","m","e","d","i","c","i","n","e","s" >>,
                                     << "i","n","t","e","r","a","c","t","i","o","n" >> }
    [] key = "commonQuestions"  -> { << "c","o","m","m","o","n"," ","q","u","e","s","t","i","o","n" >> }

Matches(text, key) == \E w \in Keywords(key) : Includes(text, w)

Undefined == [origin |-> "undefined", path |-> << >>, hash |-> ""]
NoLinks == [key \in LinkKeySet |-> Undefined]

\* href.startsWith('http') ? href : `https://www.nhs.uk${href}`
FullUrl(href) ==
  IF href.origin # "" THEN href
  ELSE [origin |-> SiteOrigin, path |-> href.path, hash |-> href.hash]

\* the body of linkElements.forEach(...)
SectionLinkStep(links, a) ==
  The({LET hit == {k \in 1..Len(LinkKeys) : Matches(text, LinkKeys[k])}
       IN  IF a.href # EmptyHref /\ text # << >> /\ hit # {}
           THEN [links EXCEPT
                   ![LinkKeys[CHOOSE k \in hit : \A j \in hit : k <= j]] = FullUrl(a.href)]
           ELSE links :
       text \in {Trim(ToLower(a.text))}})

RECURSIVE SectionLinkFold(_, _)
SectionLinkFold(links, anchors) ==
  IF anchors = << >> THEN links
  ELSE The({SectionLinkFold(next, rest) :
              next \in {IF Includes(Head(anchors).href.path, MedicinesSeg)
                        THEN SectionLinkStep(links, Head(anchors)) ELSE links},
              rest \in {Tail(anchors)}})

\* what page.evaluate returns in getSectionLinks
SectionLinks(anchors) == SectionLinkFold(NoLinks, anchors)

(***************************************************************************)
(* The item record (MedicineInfo) and scrapeDetailedSections.              *)
(***************************************************************************)
\* the section slots of MedicineInfo, in the order scrapeDetailedSections fills them
Slots ==
  << "about", "eligibility", "howAndWhenToTake", "sideEffects",
     "pregnancyBreastFeedingFertility", "takingWithOther", "commonQuestions" >>
SlotSet == {Slots[k] : k \in 1..Len(Slots)}

\* a text the page produced, and whether enhanceGrammar has been applied to it
RawText(t) == [raw |-> t, enhanced |-> FALSE]

\* enhanceGrammar, as an uninterpreted rewrite: '' stays '', any other text is
\* replaced by its rewritten form
Enhanced(text) == IF text.raw = "" THEN text ELSE [text EXCEPT !.enhanced = TRUE]

\* sections.map(section => ({...section, paragraphText: enhanceGrammar(...)}))
EnhanceAll(paragraphs) ==
  [k \in 1..Len(paragraphs) |->
     [paragraphs[k] EXCEPT !.paragraphText = Enhanced(paragraphs[k].paragraphText)]]

\* what page.evaluate returns in scrapeMedicineDetails for the page of a link:
\* the name is the heading of the page, not the text of the link
PageInfo(link) ==
  [name |-> << "h1", link.url.path >>, summary |-> RawText("summary")]

\* the record initialized without its commonQuestions slot
NewMedicineNoQuestions(link, info, links) ==
  [name    |-> info.name,
   url     |-> link.url,
   summary |-> Enhanced(info.summary),
   about                           |-> [sections |-> << >>, url |-> links["about"]],
   eligibility                     |-> [sections |-> << >>, url |-> links["whoCanTake"]],
   howAndWhenToTake                |-> [sections |-> << >>, url |-> links["howAndWhenToTake"]],
   sideEffects                     |-> [sections |-> << >>, url |-> links["sideEffects"]],
   pregnancyBreastFeedingFertility |-> [sections |-> << >>, url |-> links["pregnancy"]],
   takingWithOther                 |-> [sections |-> << >>, url |-> links["interactions"]]]

\* const medicine: MedicineInfo = { ... }
NewMedicine(link, info, links) ==
  [name    |-> info.name,
   url     |-> link.url,
   summary |-> Enhanced(info.summary),
   about                           |-> [sections |-> << >>, url |-> links["about"]],
   eligibility                     |-> [sections |-> << >>, url |-> links["whoCanTake"]],
   howAndWhenToTake                |-> [sections |-> << >>, url |-> links["howAndWhenToTake"]],
   sideEffects                     |-> [sections |-> << >>, url |-> links["sideEffects"]],
   pregnancyBreastFeedingFertility |-> [sections |-> << >>, url |-> links["pregnancy"]],
   takingWithOther                 |-> [sections |-> << >>, url |-> links["interactions"]],
   commonQuestions                 |-> [sections |-> << >>, url |-> links["commonQuestions"]]]

\* one if-block of scrapeDetailedSections: the k-th, given what the
\* extraction of its link returned
FillSlot(medicine, k, extracted) ==
  [medicine EXCEPT
     ![Slots[k]] = [sections |-> EnhanceAll(extracted.sections), url |-> extracted.url]]

\* the next if-block of scrapeDetailedSections after the k-th whose link is set;
\* Len(LinkKeys) + 1 when there is none
NextLinked(links, k) ==
  IF \E j \in (k + 1)..Len(LinkKeys) : links[LinkKeys[j]] # Undefined
  THEN CHOOSE j \in (k + 1)..Len(LinkKeys) :
         /\ links[LinkKeys[j]] # Undefined
         /\ \A h \in (k + 1)..(j - 1) : links[LinkKeys[h]] = Undefined
  ELSE Len(LinkKeys) + 1

(***************************************************************************)
(* The pages the environment serves.                                       *)
(***************************************************************************)
Slugs == << "aspirin", "codeine", "ibuprofen", "warfarin", "zopiclone" >>
LinkTexts ==
  << << "A","s","p","i","r","i","n" >>,
     << "C","o","d","e","i","n","e" >>,
     << " ","A","s","p","i","r","i","n","\n" >>,
     << "W","a","r","f","a","r","i","n" >>,
     << "Z","o","p","i","c","l","o","n","e" >> >>

MedicineHref(k) ==
  [origin |-> "", path |-> MedicinesSeg \o << Slugs[k], "/" >>, hash |-> ""]

\* an index page with n medicines: the A-to-Z link, one anchor per medicine, and
\* a second anchor to the first medicine, absolute and with another text
RunIndexPage(n) ==
  << [href |-> [origin |-> "", path |-> MedicinesSeg, hash |-> ""],
      text |-> MedicinesAToZ] >>
  \o [k \in 1..n |-> [href |-> MedicineHref(k), text |-> LinkTexts[k]]]
  \o (IF n = 0 THEN << >>
      ELSE << [href |-> [MedicineHref(1) EXCEPT !.origin = SiteOrigin],
               text |-> << "L","o","w","-","d","o","s","e"," ","a","s","p","i","r","i","n" >>] >>)

SectionSegs ==
  << "about", "who-can-take", "how-and-when", "side-effects", "pregnancy",
     "interactions", "common-questions" >>
SectionTexts ==
  << << "A","b","o","u","t" >>,
     << "W","h","o"," ","c","a","n"," ","t","a","k","e"," ","i","t" >>,
     << "H","o","w"," ","a","n","d"," ","w","h","e","n" >>,
     << "S","i","d","e"," ","e","f","f","e","c","t","s" >>,
     << "P","r","e","g","n","a","n","c","y" >>,
     << "I","n","t","e","r","a","c","t","i","o","n","s" >>,
     << "C","o","m","m","o","n"," ","q","u","e","s","t","i","o","n","s" >> >>

SectionAnchor(link, k) ==
  [href |-> [origin |-> "", path |-> link.url.path \o << SectionSegs[k], "/" >>,
             hash |-> ""],
   text |-> SectionTexts[k]]

\* the anchors of the detail page of a link that has the sections of keys S
RECURSIVE DetailAnchorsFrom(_, _, _)
DetailAnchorsFrom(link, S, k) ==
  IF k > Len(LinkKeys) THEN << >>
  ELSE (IF LinkKeys[k] \in S THEN << SectionAnchor(link, k) >> ELSE << >>)
       \o DetailAnchorsFrom(link, S, k + 1)

DetailAnchors(link, S) ==
  << [href |-> [origin |-> "", path |-> MedicinesSeg, hash |-> ""],
      text |-> << "M","e","d","i","c","i","n","e","s"," ","A"," ","t","o"," ","Z" >>] >>
  \o DetailAnchorsFrom(link, S, 1)

\* the paragraphs extracted from the page of the k-th section when c of its
\* headings (or disclosure widgets) qualify
PageParagraphs(k, c) ==
  [j \in 1..c |->
     [paragraphTitle |-> << SectionSegs[k], j >>,
      paragraphText  |-> RawText(SectionSegs[k])]]

(***************************************************************************)
(* The state of a run of scrape().                                         *)
(***************************************************************************)
VARIABLES
  argv,             \* the arguments of the command line, << >> when the scraper
                    \* is not run by main()
  options,          \* the options of the constructor: concurrency, delay, limit
  indexAnchors,     \* the anchors of the index page
  site,             \* the pages the site may serve: the sets of section keys a
                    \* detail page links to, the paragraph counts of a section page
  faults,           \* how many operations the environment may still fail
  pcMain,           \* where scrape() is
  error,            \* what scrape() has thrown, "none" when nothing
  medicineLinks,    \* the catalog getMedicineLinks returned
  linksToProcess,   \* the catalog after the limit
  permits,          \* Semaphore.permits
  waitQueue,        \* Semaphore.waitQueue, as the tasks that wait
  pc,               \* where each task of the map is
  medicine,         \* the record scrapeMedicineDetails is building, per task
  sectionLinks,     \* the link map getSectionLinks returned, per task
  cur,              \* the if-block of scrapeDetailedSections a task is in
  ret,              \* what scrapeMedicineDetails returned, per task
  hist,             \* what the environment did to each task (history)
  medicines,        \* the array medicines of scrape()
  failedMedicines,  \* the array failedMedicines of scrape()
  processedCount,   \* this.processedCount
  result,           \* the ScrapingResult built by scrape()
  saved,            \* the content of the file saveResults wrote
  outputPath,       \* the path of the file saveResults wrote
  called,           \* the semaphore alone: how many callers have called acquire()
  proceeded,        \* the semaphore alone: the callers whose acquire() has
                    \* returned, in that order
  released,         \* the semaphore alone: the callers that have called release()
  wordList,         \* this.wordList
  textIn,           \* the text functions alone: the text given to smartCleanText
  textOut,          \* the text functions alone: what smartCleanText returned
  widgets,          \* the details elements of a common questions page
  questions,        \* the sections stored from the common questions page
  dom,              \* one page.evaluate alone: the elements of its page
  evaluated         \* one page.evaluate alone: what it returned

vars ==
  << argv, outputPath, options, indexAnchors, site, faults, pcMain, medicineLinks, linksToProcess,
     permits, waitQueue, pc, medicine, sectionLinks, cur, ret, hist, medicines,
     failedMedicines, processedCount, result, saved, error, called, proceeded,
     released, wordList, textIn, textOut, widgets, questions, dom, evaluated >>

DefaultDelay == 1000

NoMedicine == [none |-> TRUE]
NoResult == [none |-> TRUE]
NoHist ==
  [stageA |-> "none", stageB |-> "none", closeA |-> "none",
   fetched |-> {}, failed |-> {},
   extracted |-> [k \in 1..Len(Slots) |-> << >>],
   navs |-> << >>,
   progress |-> [count |-> 0, total |-> 0, percentage |-> 0, logged |-> FALSE]]

\* page.goto(url) is called in the given stage of a task with history h
Goto(h, stage, url) ==
  [h EXCEPT !.navs = Append(@, [stage |-> stage, url |-> url])]

Tasks == 1..Len(pc)

\* the tasks a run may have
TaskIds == 1..MaxLinks

\* scrape() is not called again once the instance has processed this many links
MaxProcessed == 2
\* the links of the index page of an instance that is used again
MaxReuseLinks == 2

Min(a, b) == IF a < b THEN a ELSE b

\* the limit taken from the end of the catalog: medicineLinks.slice(-limit)
ApplyLimitFromEnd(links, limit) ==
  IF limit > 0 THEN SubSeq(links, Len(links) - Min(limit, Len(links)) + 1, Len(links))
  ELSE links

\* limit > 0 ? medicineLinks.slice(0, limit) : medicineLinks
ApplyLimit(links, limit) ==
  IF limit > 0 THEN SubSeq(links, 1, Min(limit, Len(links))) ELSE links

\* linksToProcess.map(async ...): every task runs up to its await of acquire(),
\* in the order of the links; the state of the semaphore after the first n
RECURSIVE AcquireAll(_, _)
AcquireAll(k, n) ==
  IF n = 0 THEN [permits |-> k, waitQueue |-> << >>, admitted |-> {}]
  ELSE LET before == AcquireAll(k, n - 1)
           after  == SemAcquire(before.permits, before.waitQueue, n)
       IN  [permits   |-> after.permits,
            waitQueue |-> after.waitQueue,
            admitted  |-> IF after.granted THEN before.admitted \cup {n}
                          ELSE before.admitted]

\* Math.round(x / y) for x >= 0, y > 0
RoundDiv(x, y) == (2 * x + y) \div (2 * y)

BarWidth == 20

\* Math.round((this.processedCount / linksToProcess.length) * 100)
Progress(count, total) == RoundDiv(count * 100, total)

\* createProgressBar throws (String.prototype.repeat of a negative count)
\* when the bar is longer than its width
ProgressBarThrows(percentage) ==
  LET filled == RoundDiv(percentage * BarWidth, 100)
      empty  == BarWidth - filled
  IN  filled < 0 \/ empty < 0

\* the semaphore is not used alone
NoCallers ==
  /\ called = 0
  /\ proceeded = << >>
  /\ released = {}

\* no file has been written
NoPath == ""
\* the scraper is made by a caller other than main()
NoArgs == << >>

\* scrape() has not been called
InitScrape ==
  /\ pcMain = "start"
  /\ error = "none"
  /\ medicineLinks = << >>
  /\ linksToProcess = << >>
  /\ pc = << >>
  /\ medicine = << >>
  /\ sectionLinks = << >>
  /\ cur = << >>
  /\ ret = << >>
  /\ hist = << >>
  /\ medicines = << >>
  /\ failedMedicines = << >>
  /\ processedCount = 0
  /\ result = NoResult
  /\ saved = NoResult
  /\ outputPath = NoPath

\* extractCommonQuestions has not been called alone
NoQuestions == [none |-> TRUE]

\* no page.evaluate is run alone
NotEvaluated == [none |-> TRUE]
NoDom ==
  /\ dom = << >>
  /\ evaluated = NotEvaluated

\* the text functions are not used alone
NoText ==
  /\ wordList = {}
  /\ textIn = << >>
  /\ textOut = Null
  /\ widgets = << >>
  /\ questions = NoQuestions

InitRunState ==
  /\ InitScrape
  /\ NoText
  /\ NoDom
  /\ permits = 0
  /\ waitQueue = << >>
  /\ NoCallers

\* the site of a run with several links: a detail page links to one section,
\* a section page holds one paragraph
RunSite == [keys |-> { {"sideEffects"} }, counts |-> {1}]

\* the site of a run with one link: a detail page links to any of the sections,
\* a section page holds no paragraph or one
ItemSite == [keys |-> SUBSET LinkKeySet, counts |-> {0, 1}]

\* the operations of a run with one link: the index page, the detail page twice,
\* its close, the section pages, the file
ItemFaults == Len(LinkKeys) + 5

Init ==
  /\ argv = NoArgs
  /\ options \in [concurrency : 1..MaxPermits,
                  delay       : {0, DefaultDelay},
                  limit       : {0, MaxLimit}]
  /\ \E n \in 0..MaxLinks : indexAnchors = RunIndexPage(n)
  /\ site = RunSite
  /\ faults = MaxFaults
  /\ InitRunState

(***************************************************************************)
(* scrape().  A promise's continuation runs as a microtask, before the     *)
(* next page, timer or file operation completes: an action is the          *)
(* completion of one such operation together with the continuations it     *)
(* resolves.                                                               *)
(***************************************************************************)
textVars == << wordList, textIn, textOut, widgets, questions >>
domVars == << dom, evaluated >>
envVars ==
  << argv, options, indexAnchors, site, called, proceeded, released,
     wordList, textIn, textOut, widgets, questions, dom, evaluated >>
catalogVars == << medicineLinks, linksToProcess >>
semVars == << permits, waitQueue >>
sharedVars == << medicines, failedMedicines, processedCount >>

\* the result with scrapedMedicines computed from the catalog and the failures
BuildResultBySubtraction(links, done, failed) ==
  [totalMedicines   |-> Len(links),
   scrapedMedicines |-> Len(links) - Len(failed),
   failedMedicines  |-> failed,
   medicines        |-> done]

\* the result with totalMedicines counting the attempted links
BuildResultAttempted(links, done, failed) ==
  [totalMedicines   |-> Len(done) + Len(failed),
   scrapedMedicines |-> Len(done),
   failedMedicines  |-> failed,
   medicines        |-> done]

\* const result: ScrapingResult = { ... }
BuildResult(links, done, failed) ==
  [totalMedicines   |-> Len(links),
   scrapedMedicines |-> Len(done),
   failedMedicines  |-> failed,
   medicines        |-> done]

\* await Promise.all(scrapePromises), when the tasks are at newPc: it rejects with
\* the first task that rejects and scrape rethrows; it resolves when all tasks
\* are done, and scrape builds the result and awaits saveResults
AwaitAll(newPc, links, done, failed) ==
  IF pcMain # "awaitAll" /\ pcMain # "index"
  THEN UNCHANGED << pcMain, result, error >>
  ELSE IF \E j \in DOMAIN newPc : newPc[j] = "rejected"
  THEN pcMain' = "threw" /\ error' = "task" /\ UNCHANGED result
  ELSE IF \A j \in DOMAIN newPc : newPc[j] = "done"
  THEN pcMain' = "saving" /\ result' = BuildResult(links, done, failed)
       /\ UNCHANGED error
  ELSE pcMain' = "awaitAll" /\ UNCHANGED << result, error >>

\* scrape() is called and awaits getMedicineLinks
StartScrape ==
  /\ pcMain = "start"
  /\ pcMain' = "index"
  /\ UNCHANGED << envVars, error, faults, catalogVars, semVars, sharedVars, pc, medicine,
                  sectionLinks, cur, ret, hist, result, saved, outputPath >>

\* scrape() is called once more on the same instance after its last call has
\* returned or thrown and the tasks of that call have ended: the locals of the
\* call are new, the fields of the instance and the file are as they were left
ScrapeAgain ==
  /\ pcMain \in {"returned", "threw"}
  /\ \A j \in Tasks : pc[j] \in {"done", "rejected"}
  /\ processedCount < MaxProcessed
  /\ pcMain' = "index"
  /\ error' = "none"
  /\ medicineLinks' = << >>
  /\ linksToProcess' = << >>
  /\ pc' = << >>
  /\ medicine' = << >>
  /\ sectionLinks' = << >>
  /\ cur' = << >>
  /\ ret' = << >>
  /\ hist' = << >>
  /\ medicines' = << >>
  /\ failedMedicines' = << >>
  /\ result' = NoResult
  /\ UNCHANGED << envVars, faults, semVars, processedCount, saved, outputPath >>

\* the index page fails to load and the run goes on with an empty catalog
IndexFailEmptyCatalog ==
  /\ pcMain = "index"
  /\ faults > 0
  /\ faults' = faults - 1
  /\ pcMain' = "saving"
  /\ error' = "index"
  /\ result' = BuildResult(<< >>, << >>, << >>)
  /\ UNCHANGED << envVars, catalogVars, semVars, sharedVars, pc, medicine,
                  sectionLinks, cur, ret, hist, saved, outputPath >>

\* the index page fails to load: getMedicineLinks throws, scrape rethrows
IndexFail ==
  /\ pcMain = "index"
  /\ faults > 0
  /\ faults' = faults - 1
  /\ pcMain' = "threw"
  /\ error' = "index"
  /\ UNCHANGED << envVars, catalogVars, semVars, sharedVars, pc, medicine,
                  sectionLinks, cur, ret, hist, result, saved, outputPath >>

\* getMedicineLinks returns; scrape applies the limit, makes the semaphore and
\* maps the links to tasks: each calls acquire(), and the ones that got a permit
\* call scrapeMedicineDetails, which opens the page of the link
IndexDone ==
  /\ pcMain = "index"
  /\ \E links \in {MedicineLinks(indexAnchors)} :
     \E todo \in {ApplyLimit(links, options.limit)} :
     \E sem \in {AcquireAll(options.concurrency, Len(todo))} :
     \E newPc \in {[i \in 1..Len(todo) |->
                      IF i \in sem.admitted THEN "stageA" ELSE "queued"]} :
         /\ medicineLinks' = links
         /\ linksToProcess' = todo
         /\ permits' = sem.permits
         /\ waitQueue' = sem.waitQueue
         /\ pc' = newPc
         /\ medicine' = [i \in 1..Len(todo) |-> NoMedicine]
         /\ sectionLinks' = [i \in 1..Len(todo) |-> NoLinks]
         /\ cur' = [i \in 1..Len(todo) |-> 0]
         /\ ret' = [i \in 1..Len(todo) |-> "pending"]
         /\ hist' = [i \in 1..Len(todo) |->
                        IF i \in sem.admitted
                        THEN Goto(NoHist, "A", todo[i].url) ELSE NoHist]
         /\ AwaitAll(newPc, links, medicines, failedMedicines)
  /\ UNCHANGED << envVars, faults, sharedVars, saved, outputPath >>

(***************************************************************************)
(* The task of one link: the callback of linksToProcess.map, with          *)
(* scrapeMedicineDetails, getSectionLinks and scrapeDetailedSections.      *)
(***************************************************************************)
Fault ==
  /\ faults > 0
  /\ faults' = faults - 1

\* the catch of an extraction returning no url
ExtractFailureNoUrl(url) == [sections |-> << >>, url |-> Undefined]

\* what extractSectionContent and extractCommonQuestions return from their catch
ExtractFailure(url) == [sections |-> << >>, url |-> url]

\* the task i goes on inside scrapeMedicineDetails
TaskStep(i, newPc, newMedicine, newHist) ==
  /\ pc' = [pc EXCEPT ![i] = newPc]
  /\ medicine' = [medicine EXCEPT ![i] = newMedicine]
  /\ hist' = [hist EXCEPT ![i] = newHist]
  /\ UNCHANGED << ret, semVars, sharedVars, pcMain, result, error >>

\* scrapeMedicineDetails returns value (a record, or null as NoMedicine) to the
\* task i: the task records the outcome, counts it and prints the progress; its
\* finally releases the permit, which resumes the first task of the queue, and
\* starts the delay of the task
Settle(i, value, newHist) ==
  LET ok      == value # NoMedicine
      done    == IF ok THEN Append(medicines, value) ELSE medicines
      failed  == IF ok THEN failedMedicines
                 ELSE Append(failedMedicines, linksToProcess[i].name)
      count   == processedCount + 1
      throws  == ProgressBarThrows(Progress(count, Len(linksToProcess)))
      sem     == SemRelease(permits, waitQueue)
      after   == IF options.delay > 0
                 THEN (IF throws THEN "delayOutThrown" ELSE "delayOut")
                 ELSE (IF throws THEN "rejected" ELSE "done")
      newPc   == [j \in Tasks |->
                    IF j = i THEN after
                    ELSE IF j \in sem.woken THEN "stageA" ELSE pc[j]]
  IN  /\ medicines' = done
      /\ failedMedicines' = failed
      /\ processedCount' = count
      /\ permits' = sem.permits
      /\ waitQueue' = sem.waitQueue
      /\ pc' = newPc
      /\ medicine' = [medicine EXCEPT ![i] = value]
      /\ ret' = [ret EXCEPT ![i] = IF ok THEN "medicine" ELSE "null"]
      /\ hist' = [j \in Tasks |->
                     IF j = i
                     THEN [newHist EXCEPT !.progress =
                             [count      |-> count,
                              total      |-> Len(linksToProcess),
                              percentage |-> Progress(count, Len(linksToProcess)),
                              logged     |-> ~throws]]
                     ELSE IF j \in sem.woken
                     THEN Goto(hist[j], "A", linksToProcess[j].url)
                     ELSE hist[j]]
      /\ AwaitAll(newPc, medicineLinks, done, failed)

\* a failed navigation of the detail page being attempted once more
StageAFailRetry(i) ==
  /\ i \in Tasks
  /\ pc[i] = "stageA"
  /\ Fault
  /\ TaskStep(i, "stageA", medicine[i],
              Goto([hist[i] EXCEPT !.stageA = "fail"], "A", linksToProcess[i].url))
  /\ UNCHANGED << envVars, catalogVars, sectionLinks, cur, saved, outputPath >>

\* newPage, goto or evaluate of the detail page throws: the catch returns null
StageAFail(i) ==
  /\ i \in Tasks
  /\ pc[i] = "stageA"
  /\ Fault
  /\ Settle(i, NoMedicine, [hist[i] EXCEPT !.stageA = "fail"])
  /\ UNCHANGED << envVars, catalogVars, sectionLinks, cur, saved, outputPath >>

\* the detail page is loaded and evaluated; getSectionLinks is called
StageADone(i) ==
  /\ i \in Tasks
  /\ pc[i] = "stageA"
  /\ TaskStep(i, "stageB", medicine[i],
              Goto([hist[i] EXCEPT !.stageA = "ok"], "B", linksToProcess[i].url))
  /\ UNCHANGED << envVars, faults, catalogVars, sectionLinks, cur, saved, outputPath >>

\* getSectionLinks has returned links: the record is initialized and the page
\* of stage A is being closed
AfterSectionLinks(i, links, newHist) ==
  /\ sectionLinks' = [sectionLinks EXCEPT ![i] = links]
  /\ TaskStep(i, "closeA",
              NewMedicine(linksToProcess[i], PageInfo(linksToProcess[i]), links),
              newHist)
  /\ UNCHANGED << envVars, catalogVars, cur, saved, outputPath >>

\* getSectionLinks without its catch: the catch of scrapeMedicineDetails
\* returns null
StageBFailAbort(i) ==
  /\ i \in Tasks
  /\ pc[i] = "stageB"
  /\ Fault
  /\ Settle(i, NoMedicine, [hist[i] EXCEPT !.stageB = "fail"])
  /\ UNCHANGED << envVars, catalogVars, sectionLinks, cur, saved, outputPath >>

\* getSectionLinks throws inside: its catch returns {}
StageBFail(i) ==
  /\ i \in Tasks
  /\ pc[i] = "stageB"
  /\ Fault
  /\ AfterSectionLinks(i, NoLinks, [hist[i] EXCEPT !.stageB = "fail"])

\* getSectionLinks returns the link map of the page
StageBDone(i) ==
  /\ i \in Tasks
  /\ pc[i] = "stageB"
  /\ \E S \in site.keys :
       \E anchors \in {DetailAnchors(linksToProcess[i], S)} :
       \E links \in {SectionLinks(anchors)} :
         AfterSectionLinks(i, links, [hist[i] EXCEPT !.stageB = "ok"])
  /\ UNCHANGED faults

\* scrapeDetailedSections goes to its k-th if-block whose link is set and awaits
\* the extraction; after the last one scrapeMedicineDetails awaits its delay,
\* or returns the record when there is no delay
ToSection(i, k, newMedicine, newHist) ==
  /\ cur' = [cur EXCEPT ![i] = k]
  /\ IF k <= Len(LinkKeys)
     THEN TaskStep(i, "section", newMedicine,
                   Goto([newHist EXCEPT !.fetched = @ \cup {k}], "section",
                        sectionLinks[i][LinkKeys[k]]))
     ELSE IF options.delay > 0
     THEN TaskStep(i, "delayIn", newMedicine, newHist)
     ELSE Settle(i, newMedicine, newHist)

\* page.close() of the page of stage A throws: the catch returns null
CloseAFail(i) ==
  /\ i \in Tasks
  /\ pc[i] = "closeA"
  /\ Fault
  /\ Settle(i, NoMedicine, [hist[i] EXCEPT !.closeA = "fail"])
  /\ UNCHANGED << envVars, catalogVars, sectionLinks, cur, saved, outputPath >>

\* the page of stage A is closed; scrapeDetailedSections starts
CloseADone(i) ==
  /\ i \in Tasks
  /\ pc[i] = "closeA"
  /\ ToSection(i, NextLinked(sectionLinks[i], 0), medicine[i],
               [hist[i] EXCEPT !.closeA = "ok"])
  /\ UNCHANGED << envVars, faults, catalogVars, sectionLinks, saved, outputPath >>

\* the extraction of the current section link returns the paragraphs of its page
SectionDone(i) ==
  /\ i \in Tasks
  /\ pc[i] = "section"
  /\ \E c \in site.counts :
       ToSection(i, NextLinked(sectionLinks[i], cur[i]),
                 FillSlot(medicine[i], cur[i],
                          [sections |-> PageParagraphs(cur[i], c),
                           url |-> sectionLinks[i][LinkKeys[cur[i]]]]),
                 [hist[i] EXCEPT !.extracted[cur[i]] = PageParagraphs(cur[i], c)])
  /\ UNCHANGED << envVars, faults, catalogVars, sectionLinks, saved, outputPath >>

\* the extraction of the current section link throws inside: its catch returns
\* no paragraphs and the url
SectionFail(i) ==
  /\ i \in Tasks
  /\ pc[i] = "section"
  /\ Fault
  /\ ToSection(i, NextLinked(sectionLinks[i], cur[i]),
               FillSlot(medicine[i], cur[i],
                        ExtractFailure(sectionLinks[i][LinkKeys[cur[i]]])),
               [hist[i] EXCEPT !.failed = @ \cup {cur[i]}])
  /\ UNCHANGED << envVars, catalogVars, sectionLinks, saved, outputPath >>

\* the delay at the end of scrapeMedicineDetails is over: the record is returned
DelayInDone(i) ==
  /\ i \in Tasks
  /\ pc[i] = "delayIn"
  /\ Settle(i, medicine[i], hist[i])
  /\ UNCHANGED << envVars, faults, catalogVars, sectionLinks, cur, saved, outputPath >>

\* the delay of the finally block is over: the task ends
DelayOutDone(i) ==
  /\ i \in Tasks
  /\ pc[i] \in {"delayOut", "delayOutThrown"}
  /\ LET newPc == [pc EXCEPT ![i] = IF pc[i] = "delayOut" THEN "done" ELSE "rejected"]
     IN  /\ pc' = newPc
         /\ AwaitAll(newPc, medicineLinks, medicines, failedMedicines)
  /\ UNCHANGED << envVars, faults, catalogVars, semVars, sharedVars, medicine,
                  sectionLinks, cur, ret, hist, saved, outputPath >>

(***************************************************************************)
(* scrape(): saveResults.                                                  *)
(***************************************************************************)
\* fs.writeJson throws: scrape rethrows and returns no result
SaveFail ==
  /\ pcMain = "saving"
  /\ Fault
  /\ pcMain' = "threw"
  /\ error' = "save"
  /\ UNCHANGED << envVars, catalogVars, semVars, sharedVars, pc, medicine,
                  sectionLinks, cur, ret, hist, result, saved, outputPath >>

\* path.join(process.cwd(), 'nhs-medicines.json')
OutputFile == "nhs-medicines.json"

\* the result is written to nhs-medicines.json and returned
SaveDone ==
  /\ pcMain = "saving"
  /\ saved' = result
  /\ outputPath' = OutputFile
  /\ pcMain' = "returned"
  /\ UNCHANGED << envVars, error, faults, catalogVars, semVars, sharedVars, pc, medicine,
                  sectionLinks, cur, ret, hist, result >>

Next ==
  \/ StartScrape
  \/ IndexFail
  \/ IndexDone
  \/ \E i \in TaskIds : StageAFail(i)
  \/ \E i \in TaskIds : StageADone(i)
  \/ \E i \in TaskIds : StageBFail(i)
  \/ \E i \in TaskIds : StageBDone(i)
  \/ \E i \in TaskIds : CloseAFail(i)
  \/ \E i \in TaskIds : CloseADone(i)
  \/ \E i \in TaskIds : SectionDone(i)
  \/ \E i \in TaskIds : SectionFail(i)
  \/ \E i \in TaskIds : DelayInDone(i)
  \/ \E i \in TaskIds : DelayOutDone(i)
  \/ SaveFail
  \/ SaveDone

Spec == Init /\ [][Next]_vars

\* an instance whose scrape() is called again and again
InitReuse ==
  /\ argv = NoArgs
  /\ options \in [concurrency : 1..MaxPermits,
                  delay       : {0, DefaultDelay},
                  limit       : {0}]
  /\ \E n \in 0..MaxReuseLinks : indexAnchors = RunIndexPage(n)
  /\ site = RunSite
  /\ faults = MaxFaults
  /\ InitRunState

NextReuse == Next \/ ScrapeAgain

ReuseSpec == InitReuse /\ [][NextReuse]_vars

\* a run with one link, over every shape of its detail page
InitItem ==
  /\ argv = NoArgs
  /\ options \in [concurrency : {1}, delay : {0, DefaultDelay}, limit : {0}]
  /\ indexAnchors = RunIndexPage(1)
  /\ site = ItemSite
  /\ faults = ItemFaults
  /\ InitRunState

ItemSpec == InitItem /\ [][Next]_vars


(***************************************************************************)
(* The semaphore alone: callers call acquire() one after the other, and a  *)
(* caller whose acquire() has returned calls release() once.               *)
(***************************************************************************)
runVars ==
  << indexAnchors, site, faults, pcMain, error, medicineLinks, linksToProcess, pc,
     medicine, sectionLinks, cur, ret, hist, medicines, failedMedicines,
     processedCount, result, saved, outputPath >>

Holders == {proceeded[k] : k \in 1..Len(proceeded)} \ released

InitSem ==
  /\ argv = NoArgs
  /\ options \in [concurrency : 1..MaxSemPermits, delay : {DefaultDelay}, limit : {0}]
  /\ indexAnchors = << >>
  /\ site = RunSite
  /\ faults = 0
  /\ InitScrape
  /\ NoText
  /\ NoDom
  /\ permits = options.concurrency
  /\ waitQueue = << >>
  /\ NoCallers

\* the next caller calls acquire()
CallAcquire ==
  /\ called < MaxCallers
  /\ LET sem == SemAcquire(permits, waitQueue, called + 1)
     IN  /\ permits' = sem.permits
         /\ waitQueue' = sem.waitQueue
         /\ proceeded' = IF sem.granted THEN Append(proceeded, called + 1)
                         ELSE proceeded
  /\ called' = called + 1
  /\ UNCHANGED << argv, options, runVars, released, textVars, domVars >>

\* the orders in which the callers of a set may be resumed
RECURSIVE Orders(_)
Orders(S) ==
  IF S = {} THEN { << >> }
  ELSE UNION { { << c >> \o o : o \in Orders(S \ {c}) } : c \in S }

\* a caller that holds a permit calls release()
CallRelease(c) ==
  /\ c \in Holders
  /\ LET sem == SemRelease(permits, waitQueue)
     IN  /\ permits' = sem.permits
         /\ waitQueue' = sem.waitQueue
         /\ \E o \in Orders(sem.woken) : proceeded' = proceeded \o o
  /\ released' = released \cup {c}
  /\ UNCHANGED << argv, options, runVars, called, textVars, domVars >>

NextSem ==
  \/ CallAcquire
  \/ \E c \in 1..MaxCallers : CallRelease(c)

SemSpec == InitSem /\ [][NextSem]_vars

(***************************************************************************)
(* The catalog alone (test-links.ts): the links of an index page.          *)
(***************************************************************************)
AnchorHrefs ==
  { MedicineHref(1),
    [MedicineHref(1) EXCEPT !.origin = SiteOrigin],
    MedicineHref(2),
    [origin |-> "", path |-> MedicinesSeg, hash |-> ""],
    [origin |-> "", path |-> MedicinesSeg \o << "/" >>, hash |-> ""] }

AnchorTexts ==
  { << >>,
    << "A","s","p","i","r","i","n" >>,
    << "\n"," " >> \o << "L","o","w","-","d","o","s","e" >> \o << " ","\n"," " >> \o << "a","s","p","i","r","i","n" >> \o << " " >>,
    MedicinesAToZ }

AnchorPool == [href : AnchorHrefs, text : AnchorTexts]

InitLinks ==
  /\ argv = NoArgs
  /\ options = [concurrency |-> 1, delay |-> DefaultDelay, limit |-> 0]
  /\ indexAnchors \in UNION { [1..n -> AnchorPool] : n \in 0..MaxAnchors }
  /\ site = RunSite
  /\ faults = 0
  /\ InitRunState

\* testMedicineLinks: page.evaluate returns the catalog of the page
TestLinks ==
  /\ pcMain = "start"
  /\ medicineLinks' = MedicineLinks(indexAnchors)
  /\ pcMain' = "listed"
  /\ UNCHANGED << envVars, faults, error, linksToProcess, semVars, sharedVars, pc,
                  medicine, sectionLinks, cur, ret, hist, result, saved, outputPath >>

NextLinks == TestLinks

LinksSpec == InitLinks /\ [][NextLinks]_vars


(***************************************************************************)
(* main() (index.ts): the command line is parsed into ScrapingOptions, the *)
(* scraper is constructed with them and scrape() is called once.           *)
(***************************************************************************)
\* what args[++i] is past the end of the arguments
NoToken == "undefined"

Digits == << "0", "1", "2", "3", "4", "5", "6", "7", "8", "9" >>
IsDigit(t) == \E k \in 1..Len(Digits) : Digits[k] = t
DigitValue(t) == (CHOOSE k \in 1..Len(Digits) : Digits[k] = t) - 1

\* parseInt(t) || d, for a token of one character: NaN and 0 give d
ParseIntOr(t, d) == IF IsDigit(t) /\ DigitValue(t) # 0 THEN DigitValue(t) ELSE d

\* args[i]
ArgAt(args, i) == IF i <= Len(args) THEN args[i] ELSE NoToken

\* options.key = value
Put(opts, key, value) ==
  [k \in DOMAIN opts \cup {key} |-> IF k = key THEN value ELSE opts[k]]

\* const options: ScrapingOptions = {}
NoOptions == [k \in {} |-> 0]

DefaultLimitArg == 10
DefaultConcurrency == 3

\* the for loop of main over args, from index i
RECURSIVE ParseFrom(_, _, _)
ParseFrom(args, i, opts) ==
  IF i > Len(args) THEN opts
  ELSE The({
    CASE args[i] = "--test" ->
           ParseFrom(args, i + 1, Put(opts, "testMode", TRUE))
      [] args[i] = "--limit" ->
           ParseFrom(args, i + 2, Put(opts, "limit", ParseIntOr(next, DefaultLimitArg)))
      [] args[i] = "--output" ->
           ParseFrom(args, i + 2, Put(opts, "outputFile", next))
      [] args[i] = "--concurrency" ->
           ParseFrom(args, i + 2,
                     Put(opts, "maxConcurrency", ParseIntOr(next, DefaultConcurrency)))
      [] args[i] = "--delay" ->
           ParseFrom(args, i + 2,
                     Put(opts, "delayBetweenRequests", ParseIntOr(next, DefaultDelay)))
      [] OTHER -> ParseFrom(args, i + 1, opts) :
    next \in {ArgAt(args, i + 1)}})

ParseArgs(args) == ParseFrom(args, 1, NoOptions)

\* the defaults of the constructor
DefaultTimeout == 30000
Defaults ==
  [concurrency |-> DefaultConcurrency, delay |-> DefaultDelay,
   timeout |-> DefaultTimeout, testMode |-> FALSE, limit |-> 0]

\* this.options = { ...defaults, ...options }
Constructor(opts) ==
  [k \in DOMAIN Defaults \cup DOMAIN opts |->
     IF k \in DOMAIN opts THEN opts[k] ELSE Defaults[k]]

\* the words of a command line
ArgTokens ==
  { "--test", "--limit", "--output", "--concurrency", "--delay",
    "1", "2", "out.json" }

\* main() has parsed the command line and constructed the scraper; the index
\* page has two medicines
InitCli ==
  /\ argv \in UNION { [1..n -> ArgTokens] : n \in 0..MaxArgs }
  /\ options = Constructor(ParseArgs(argv))
  /\ indexAnchors = RunIndexPage(2)
  /\ site = RunSite
  /\ faults = 1
  /\ InitRunState

CliSpec == InitCli /\ [][Next]_vars

\* an index page with n medicines, each with its own name
ManyLinksPage(n) ==
  [k \in 1..n |->
     [href |-> [origin |-> "", path |-> MedicinesSeg \o << LowerCase[k], "/" >>,
                hash |-> ""],
      text |-> << "D","r","u","g"," ", UpperCase[k] >>]]

\* main() has parsed the command line and constructed the scraper; the index
\* page has one medicine more than the default limit of the test mode
InitPlan ==
  /\ argv \in UNION { [1..n -> ArgTokens] : n \in 0..MaxArgs }
  /\ options = Constructor(ParseArgs(argv))
  /\ indexAnchors = ManyLinksPage(DefaultLimitArg + 1)
  /\ site = RunSite
  /\ faults = 1
  /\ InitRunState

\* scrape() up to the point where the tasks of the links to process are made
NextPlan ==
  \/ StartScrape
  \/ IndexFail
  \/ IndexDone

PlanSpec == InitPlan /\ [][NextPlan]_vars

(***************************************************************************)
(* Text reconstruction: loadWordList, smartCleanText, enhanceGrammar, and  *)
(* extractCommonQuestions with the cleanText of its page.                  *)
(***************************************************************************)
LowerSet == {LowerCase[k] : k \in 1..Len(LowerCase)}
UpperSet == {UpperCase[k] : k \in 1..Len(UpperCase)}
DigitSet == {Digits[k] : k \in 1..Len(Digits)}
PunctSet == {".", "!", "?", ":"}
\* the characters U+00A0, U+2013 and U+2014
Nbsp == "nbsp"
EnDash == "endash"
EmDash == "emdash"

\* replace(/[chars]/g, to)
ReplaceChars(s, chars, to) ==
  [k \in 1..Len(s) |-> IF s[k] \in chars THEN to ELSE s[k]]

\* replace(/([A])([B])/g, '$1 $2')
RECURSIVE SpaceBetween(_, _, _)
SpaceBetween(s, A, B) ==
  IF Len(s) < 2 THEN s
  ELSE IF s[1] \in A /\ s[2] \in B
  THEN << s[1], " ", s[2] >> \o SpaceBetween(SubSeq(s, 3, Len(s)), A, B)
  ELSE << s[1] >> \o SpaceBetween(Tail(s), A, B)

\* replace(/from/g, to) for a literal from
RECURSIVE ReplaceAll(_, _, _)
ReplaceAll(s, from, to) ==
  IF Len(s) < Len(from) THEN s
  ELSE IF SubSeq(s, 1, Len(from)) = from
  THEN to \o ReplaceAll(SubSeq(s, Len(from) + 1, Len(s)), from, to)
  ELSE << s[1] >> \o ReplaceAll(Tail(s), from, to)

\* String.prototype.startsWith
StartsWith(s, w) == Len(s) >= Len(w) /\ SubSeq(s, 1, Len(w)) = w

\* the length of the longest match of [a-z]* at the start of s
RECURSIVE LowerRun(_)
LowerRun(s) ==
  IF s = << >> THEN 0
  ELSE IF Head(s) \in LowerSet THEN 1 + LowerRun(Tail(s)) ELSE 0

\* the length of the longest match of \s* at the start of s
RECURSIVE WhiteRun(_)
WhiteRun(s) ==
  IF s = << >> THEN 0
  ELSE IF IsSpace(Head(s)) \/ Head(s) = Nbsp THEN 1 + WhiteRun(Tail(s)) ELSE 0

\* the fallback word list of loadWordList
FallbackWords ==
  {<< "a", "b", "o", "u", "t" >>, << "a", "b", "o", "v", "e" >>, << "a", "f", "t", "e", "r" >>,
   << "a", "g", "a", "i", "n" >>, << "a", "l", "o", "n", "g" >>, << "a", "m", "o", "n", "g" >>,
   << "a", "r", "o", "u", "n", "d" >>, << "b", "e", "f", "o", "r", "e" >>,
   << "b", "e", "l", "o", "w" >>, << "b", "e", "t", "w", "e", "e", "n" >>,
   << "d", "u", "r", "i", "n", "g" >>, << "e", "x", "c", "e", "p", "t" >>,
   << "i", "n", "s", "i", "d", "e" >>, << "o", "u", "t", "s", "i", "d", "e" >>,
   << "t", "h", "r", "o", "u", "g", "h" >>, << "u", "n", "d", "e", "r" >>,
   << "w", "i", "t", "h", "i", "n" >>, << "w", "i", "t", "h", "o", "u", "t" >>,
   << "c", "o", "u", "l", "d" >>, << "w", "o", "u", "l", "d" >>,
   << "s", "h", "o", "u", "l", "d" >>, << "m", "i", "g", "h", "t" >>,
   << "s", "h", "a", "l", "l" >>, << "o", "u", "g", "h", "t" >>,
   << "c", "a", "n", "n", "o", "t" >>, << "d", "o", "n", "'", "t" >>,
   << "w", "o", "n", "'", "t" >>, << "c", "a", "n", "'", "t" >>, << "i", "s", "n", "'", "t" >>,
   << "a", "r", "e", "n", "'", "t" >>, << "w", "a", "s", "n", "'", "t" >>,
   << "w", "e", "r", "e", "n", "'", "t" >>, << "h", "a", "s", "n", "'", "t" >>,
   << "h", "a", "v", "e", "n", "'", "t" >>, << "h", "a", "d", "n", "'", "t" >>,
   << "d", "o", "e", "s", "n", "'", "t" >>, << "d", "i", "d", "n", "'", "t" >>,
   << "y", "e", "a", "r", "s" >>, << "m", "o", "n", "t", "h", "s" >>,
   << "w", "e", "e", "k", "s" >>, << "d", "a", "y", "s" >>, << "h", "o", "u", "r", "s" >>,
   << "m", "i", "n", "u", "t", "e", "s" >>, << "s", "e", "c", "o", "n", "d", "s" >>,
   << "t", "i", "m", "e", "s" >>, << "p", "l", "a", "c", "e", "s" >>,
   << "t", "h", "i", "n", "g", "s" >>, << "p", "e", "o", "p", "l", "e" >>,
   << "c", "h", "i", "l", "d", "r", "e", "n" >>, << "w", "o", "m", "e", "n" >>,
   << "m", "e", "n" >>, << "a", "d", "u", "l", "t", "s" >>,
   << "p", "a", "t", "i", "e", "n", "t", "s" >>, << "d", "o", "c", "t", "o", "r", "s" >>,
   << "n", "u", "r", "s", "e", "s" >>, << "m", "e", "d", "i", "c", "i", "n", "e" >>,
   << "m", "e", "d", "i", "c", "i", "n", "e", "s" >>, << "t", "a", "b", "l", "e", "t", "s" >>,
   << "t", "a", "b", "l", "e", "t" >>, << "l", "i", "q", "u", "i", "d" >>,
   << "c", "r", "e", "a", "m" >>, << "o", "i", "n", "t", "m", "e", "n", "t" >>,
   << "i", "n", "j", "e", "c", "t", "i", "o", "n" >>,
   << "i", "n", "j", "e", "c", "t", "i", "o", "n", "s" >>, << "d", "r", "o", "p", "s" >>,
   << "s", "p", "r", "a", "y" >>, << "s", "p", "r", "a", "y", "s" >>,
   << "c", "a", "p", "s", "u", "l", "e", "s" >>, << "c", "a", "p", "s", "u", "l", "e" >>,
   << "p", "r", "o", "b", "l", "e", "m", "s" >>, << "p", "r", "o", "b", "l", "e", "m" >>,
   << "i", "s", "s", "u", "e", "s" >>, << "i", "s", "s", "u", "e" >>,
   << "c", "o", "n", "d", "i", "t", "i", "o", "n", "s" >>,
   << "c", "o", "n", "d", "i", "t", "i", "o", "n" >>,
   << "d", "i", "s", "e", "a", "s", "e", "s" >>, << "d", "i", "s", "e", "a", "s", "e" >>,
   << "s", "y", "m", "p", "t", "o", "m", "s" >>, << "s", "y", "m", "p", "t", "o", "m" >>,
   << "e", "f", "f", "e", "c", "t", "s" >>, << "e", "f", "f", "e", "c", "t" >>,
   << "r", "e", "a", "c", "t", "i", "o", "n", "s" >>,
   << "r", "e", "a", "c", "t", "i", "o", "n" >>, << "p", "r", "e", "g", "n", "a", "n", "t" >>,
   << "p", "r", "e", "g", "n", "a", "n", "c", "y" >>,
   << "b", "r", "e", "a", "s", "t", "f", "e", "e", "d", "i", "n", "g" >>,
   << "b", "r", "e", "a", "s", "t", "f", "e", "e", "d" >>,
   << "f", "e", "r", "t", "i", "l", "i", "t", "y" >>, << "f", "e", "r", "t", "i", "l", "e" >>,
   << "c", "o", "n", "c", "e", "p", "t", "i", "o", "n" >>,
   << "c", "o", "n", "t", "r", "a", "c", "e", "p", "t", "i", "o", "n" >>,
   << "c", "o", "n", "t", "r", "a", "c", "e", "p", "t", "i", "v", "e" >>,
   << "c", "o", "n", "t", "r", "a", "c", "e", "p", "t", "i", "v", "e", "s" >>,
   << "a", "l", "l", "e", "r", "g", "i", "c" >>, << "a", "l", "l", "e", "r", "g", "y" >>,
   << "a", "l", "l", "e", "r", "g", "i", "e", "s" >>,
   << "s", "e", "n", "s", "i", "t", "i", "v", "e" >>,
   << "s", "e", "n", "s", "i", "t", "i", "v", "i", "t", "y" >>,
   << "i", "n", "t", "o", "l", "e", "r", "a", "n", "c", "e" >>,
   << "i", "n", "t", "o", "l", "e", "r", "a", "n", "t" >>,
   << "r", "e", "a", "c", "t", "i", "o", "n" >>,
   << "r", "e", "a", "c", "t", "i", "o", "n", "s" >>, << "k", "i", "d", "n", "e", "y" >>,
   << "l", "i", "v", "e", "r" >>, << "h", "e", "a", "r", "t" >>, << "l", "u", "n", "g" >>,
   << "l", "u", "n", "g", "s" >>, << "b", "r", "a", "i", "n" >>, << "b", "l", "o", "o", "d" >>,
   << "s", "k", "i", "n" >>, << "b", "o", "n", "e" >>, << "b", "o", "n", "e", "s" >>,
   << "m", "u", "s", "c", "l", "e" >>, << "m", "u", "s", "c", "l", "e", "s" >>,
   << "j", "o", "i", "n", "t" >>, << "j", "o", "i", "n", "t", "s" >>,
   << "t", "r", "a", "n", "s", "p", "l", "a", "n", "t" >>,
   << "t", "r", "a", "n", "s", "p", "l", "a", "n", "t", "s" >>}

\* word-list.txt as the words between its white space: files it may be
WordFiles ==
  { << << "#" >>, << "w", "o", "r", "d", "s" >>, << "P", "a", "i", "n" >>, << "m", "e", "n" >>, << "i", "s" >>, << "i", "s", "s", "u", "e" >> >> }

\* the words loadWordList keeps of a file
LoadedWords(file) ==
  {ToLower(Trim(file[k])) : k \in {j \in 1..Len(file) :
      /\ ToLower(Trim(file[j])) # << >>
      /\ ~StartsWith(ToLower(Trim(file[j])), << "#" >>)
      /\ Len(ToLower(Trim(file[j]))) > 2}}

\* replace(/([a-z])([a-z]{3,})/g, ...) of smartCleanText: a run of four
\* lower-case letters or more is matched whole, p1 its first letter and p2 the
\* rest, and is split when p2 is in the word list
RECURSIVE SeparateWords(_, _)
SeparateWords(s, words) ==
  IF s = << >> THEN << >>
  ELSE The({IF n >= 4
            THEN (IF SubSeq(s, 2, n) \in words
                  THEN << s[1], " " >> \o SubSeq(s, 2, n)
                  ELSE SubSeq(s, 1, n))
                 \o SeparateWords(SubSeq(s, n + 1, Len(s)), words)
            ELSE << s[1] >> \o SeparateWords(Tail(s), words)
            : n \in {LowerRun(s)}})

\* smartCleanText with this.wordList = words
SmartCleanText(text, words) ==
  IF text = << >> THEN text
  ELSE LET noNbsp    == ReplaceChars(text, {Nbsp}, " ")
           noDash    == ReplaceChars(noNbsp, {EnDash, EmDash}, " ")
           punct     == SpaceBetween(noDash, PunctSet, UpperSet)
           camel     == SpaceBetween(punct, LowerSet, UpperSet)
           letterNum == SpaceBetween(camel, LowerSet, DigitSet)
           numUpper  == SpaceBetween(letterNum, DigitSet, UpperSet)
           colon     == SpaceBetween(numUpper, {":"}, LowerSet)
           separated == SeparateWords(colon, words)
       IN  Trim(CollapseSpaces(separated))

\* replace(/([a-z])\s+([A-Z][a-z])/g, ...) of enhanceGrammar: a match holds no
\* '.' and no ':', so the callback always returns p1 + '. ' + p2
RECURSIVE AddPeriods(_)
AddPeriods(s) ==
  IF s = << >> THEN << >>
  ELSE The({IF /\ s[1] \in LowerSet
               /\ w >= 1
               /\ Len(s) >= w + 3
               /\ s[w + 2] \in UpperSet
               /\ s[w + 3] \in LowerSet
            THEN << s[1], ".", " ", s[w + 2], s[w + 3] >>
                 \o AddPeriods(SubSeq(s, w + 4, Len(s)))
            ELSE << s[1] >> \o AddPeriods(Tail(s))
            : w \in {WhiteRun(Tail(s))}})

Conjunctions ==
  {<< "b", "u", "t" >>, << "h", "o", "w", "e", "v", "e", "r" >>,
   << "t", "h", "e", "r", "e", "f", "o", "r", "e" >>,
   << "m", "o", "r", "e", "o", "v", "e", "r" >>,
   << "f", "u", "r", "t", "h", "e", "r", "m", "o", "r", "e" >>}

\* the end of the match of /([a-z])\s+c\s+([a-z])/ at the start of s, 0 when
\* there is none
ConjEnd(s, c) ==
  The({IF /\ s # << >>
          /\ s[1] \in LowerSet
          /\ w1 >= 1
          /\ Len(s) >= w1 + 1 + Len(c)
          /\ SubSeq(s, w1 + 2, w1 + 1 + Len(c)) = c
       THEN The({IF /\ w2 >= 1
                    /\ Len(s) >= w1 + 1 + Len(c) + w2 + 1
                    /\ s[w1 + 1 + Len(c) + w2 + 1] \in LowerSet
                 THEN w1 + 1 + Len(c) + w2 + 1 ELSE 0
                 : w2 \in {WhiteRun(SubSeq(s, w1 + 2 + Len(c), Len(s)))}})
       ELSE 0
       : w1 \in {WhiteRun(Tail(s))}})

\* replace(/([a-z])\s+(but|however|therefore|moreover|furthermore)\s+([a-z])/g,
\* '$1, $2 $3')
RECURSIVE AddCommas(_)
AddCommas(s) ==
  IF s = << >> THEN << >>
  ELSE IF \E c \in Conjunctions : ConjEnd(s, c) > 0
  THEN LET c == CHOOSE d \in Conjunctions : ConjEnd(s, d) > 0
           e == ConjEnd(s, c)
       IN  << s[1], ",", " " >> \o c \o << " ", s[e] >>
           \o AddCommas(SubSeq(s, e + 1, Len(s)))
  ELSE << s[1] >> \o AddCommas(Tail(s))

\* \w
IsWordChar(c) == c \in LowerSet \cup UpperSet \cup DigitSet \cup {"_"}

\* replace(/\bits\s+([a-z])/g, "it's $1"), prev being the character before s,
\* "" at the start of the text
RECURSIVE FixIts(_, _)
FixIts(s, prev) ==
  IF s = << >> THEN << >>
  ELSE The({IF /\ ~IsWordChar(prev)
               /\ StartsWith(s, << "i", "t", "s" >>)
               /\ w >= 1
               /\ Len(s) >= w + 4
               /\ s[w + 4] \in LowerSet
            THEN << "i", "t", "'", "s", " ", s[w + 4] >>
                 \o FixIts(SubSeq(s, w + 5, Len(s)), s[w + 4])
            ELSE << s[1] >> \o FixIts(Tail(s), s[1])
            : w \in {WhiteRun(SubSeq(s, 4, Len(s)))}})

\* the words of the callback of the replace of "you"
AuxVerbs ==
  {<< "a", "r", "e" >>, << "h", "a", "v", "e" >>, << "c", "a", "n" >>, << "s", "h", "o", "u", "l", "d" >>, << "w", "i", "l", "l" >>, << "m", "a", "y" >>}

\* String.prototype.replace(from, to) for a string from: the first occurrence
ReplaceFirst(s, from, to) ==
  IF IndexOf(s, from) = -1 THEN s
  ELSE SubSeq(s, 1, IndexOf(s, from)) \o to
       \o SubSeq(s, IndexOf(s, from) + Len(from) + 1, Len(s))

\* replace(/\byou\s+([a-z])/g, (match, p1) => ...): p1 is the one letter the
\* group matched; prev is the character before s, "" at the start of the text
RECURSIVE FixYou(_, _)
FixYou(s, prev) ==
  IF s = << >> THEN << >>
  ELSE The({IF /\ ~IsWordChar(prev)
               /\ StartsWith(s, << "y", "o", "u" >>)
               /\ w >= 1
               /\ Len(s) >= w + 4
               /\ s[w + 4] \in LowerSet
            THEN (IF << s[w + 4] >> \in AuxVerbs
                  THEN ReplaceFirst(SubSeq(s, 1, w + 4),
                                    << "y", "o", "u", " ", s[w + 4] >>,
                                    << "y", "o", "u", "'", "r", "e", " ", s[w + 4] >>)
                  ELSE SubSeq(s, 1, w + 4))
                 \o FixYou(SubSeq(s, w + 5, Len(s)), s[w + 4])
            ELSE << s[1] >> \o FixYou(Tail(s), s[1])
            : w \in {WhiteRun(SubSeq(s, 4, Len(s)))}})

\* enhanceGrammar with this.wordList = words
EnhanceGrammar(text, words) ==
  IF text = << >> THEN text
  ELSE LET cleanedText == SmartCleanText(text, words)
           periods     == AddPeriods(cleanedText)
           commas      == AddCommas(periods)
           its         == FixIts(commas, "")
           you         == FixYou(its, "")
       IN  Trim(CollapseSpaces(you))

\* commonWords of the cleanText of a page
CommonWords ==
  {<< "c", "o", "l", "d" >>, << "g", "e", "n", "i", "t", "a", "l" >>, << "e", "y", "e" >>,
   << "s", "k", "i", "n" >>, << "o", "r", "a", "l" >>, << "n", "a", "s", "a", "l" >>,
   << "e", "a", "r" >>, << "h", "a", "n", "d" >>, << "f", "o", "o", "t" >>,
   << "b", "a", "c", "k" >>, << "c", "h", "e", "s", "t" >>, << "h", "e", "a", "d" >>,
   << "n", "e", "c", "k" >>, << "a", "r", "m" >>, << "l", "e", "g" >>}

\* replace(/([a-z])([a-z][a-z][a-z]+)/g, ...) of the cleanText of a page: the
\* run is split when p2 has four letters or more and starts with a common word
RECURSIVE SeparateCommonWords(_)
SeparateCommonWords(s) ==
  IF s = << >> THEN << >>
  ELSE The({IF n >= 4
            THEN (IF n - 1 >= 4 /\ \E w \in CommonWords : StartsWith(SubSeq(s, 2, n), w)
                  THEN << s[1], " " >> \o SubSeq(s, 2, n)
                  ELSE SubSeq(s, 1, n))
                 \o SeparateCommonWords(SubSeq(s, n + 1, Len(s)))
            ELSE << s[1] >> \o SeparateCommonWords(Tail(s))
            : n \in {LowerRun(s)}})

\* the literal replacements of the cleanText of the common questions page, in
\* their order
Literals ==
  << [from |-> << "c", "o", "l", "d", " ", "s", "o", "r", "e", "s", "g", "e", "n", "i", "t", "a", "l", " ", "h", "e", "r", "p", "e", "s", "e", "y", "e", " ", "i", "n", "f", "e", "c", "t", "i", "o", "n", "s" >>,
      to   |-> << "c", "o", "l", "d", " ", "s", "o", "r", "e", "s", " ", "g", "e", "n", "i", "t", "a", "l", " ", "h", "e", "r", "p", "e", "s", " ", "e", "y", "e", " ", "i", "n", "f", "e", "c", "t", "i", "o", "n", "s" >>],
     [from |-> << "c", "o", "l", "d", " ", "s", "o", "r", "e", "s", "g", "e", "n", "i", "t", "a", "l", " ", "h", "e", "r", "p", "e", "s" >>,
      to   |-> << "c", "o", "l", "d", " ", "s", "o", "r", "e", "s", " ", "g", "e", "n", "i", "t", "a", "l", " ", "h", "e", "r", "p", "e", "s" >>],
     [from |-> << "g", "e", "n", "i", "t", "a", "l", " ", "h", "e", "r", "p", "e", "s", "e", "y", "e", " ", "i", "n", "f", "e", "c", "t", "i", "o", "n", "s" >>,
      to   |-> << "g", "e", "n", "i", "t", "a", "l", " ", "h", "e", "r", "p", "e", "s", " ", "e", "y", "e", " ", "i", "n", "f", "e", "c", "t", "i", "o", "n", "s" >>],
     [from |-> << "m", "e", "d", "i", "c", "i", "n", "e", "h", "a", "v", "e" >>,
      to   |-> << "m", "e", "d", "i", "c", "i", "n", "e", " ", "h", "a", "v", "e" >>],
     [from |-> << "y", " ", "e", "a", "r", "s" >>,
      to   |-> << "y", "e", "a", "r", "s" >>],
     [from |-> << "o", "l", "d", "a", "r", "e" >>,
      to   |-> << "o", "l", "d", " ", "a", "r", "e" >>],
     [from |-> << "p", "r", "o", "b", "l", "e", "m", "s", "a", "r", "e" >>,
      to   |-> << "p", "r", "o", "b", "l", "e", "m", "s", " ", "a", "r", "e" >>],
     [from |-> << "b", "r", "e", "a", "s", "t", "f", "e", "e", "d", "i", "n", "g", "." >>,
      to   |-> << "b", "r", "e", "a", "s", "t", "f", "e", "e", "d", "i", "n", "g", "." >>] >>

RECURSIVE ReplaceLiterals(_, _)
ReplaceLiterals(s, k) ==
  IF k > Len(Literals) THEN s
  ELSE ReplaceLiterals(ReplaceAll(s, Literals[k].from, Literals[k].to), k + 1)

\* undefined where a string is expected
UndefinedText == << "<undefined>" >>

\* cleanText inside page.evaluate of extractCommonQuestions; text is Null for
\* a null textContent
PageCleanText(text) ==
  IF ~Truthy(text) THEN UndefinedText
  ELSE LET noNbsp    == ReplaceChars(text, {Nbsp}, " ")
           noDash    == ReplaceChars(noNbsp, {EnDash, EmDash}, " ")
           punct     == SpaceBetween(noDash, PunctSet, UpperSet)
           camel     == SpaceBetween(punct, LowerSet, UpperSet)
           letterNum == SpaceBetween(camel, LowerSet, DigitSet)
           numUpper  == SpaceBetween(letterNum, DigitSet, UpperSet)
           separated == SeparateCommonWords(numUpper)
           literal   == ReplaceLiterals(separated, 1)
           colon     == SpaceBetween(SpaceBetween(literal, {":"}, LowerSet),
                                     {":"}, LowerSet)
       IN  Trim(CollapseSpaces(colon))

\* detailsElements.forEach(...): a widget is [summary, answer], the textContent
\* of its two elements, NoElement for an element querySelector does not find
NoElement == << "<no element>" >>

RECURSIVE DetailsParagraphs(_)
DetailsParagraphs(ws) ==
  IF ws = << >> THEN << >>
  ELSE The({(IF /\ Head(ws).summary # NoElement
                /\ Head(ws).answer # NoElement
                /\ question # UndefinedText
                /\ answer # UndefinedText
                /\ Len(question) > 5
                /\ Len(answer) > 10
             THEN << [paragraphTitle |-> question, paragraphText |-> answer] >>
             ELSE << >>)
            \o DetailsParagraphs(Tail(ws))
            : question \in {IF Head(ws).summary = NoElement THEN UndefinedText
                            ELSE PageCleanText(Head(ws).summary)},
              answer \in {IF Head(ws).answer = NoElement THEN UndefinedText
                          ELSE PageCleanText(Head(ws).answer)}})

\* commonQuestionsSection.sections.map(... enhanceGrammar(section.paragraphText))
CommonQuestionsSections(ws, words) ==
  The({[k \in 1..Len(paragraphs) |->
          [paragraphs[k] EXCEPT
             !.paragraphText = EnhanceGrammar(paragraphs[k].paragraphText, words)]]
       : paragraphs \in {DetailsParagraphs(ws)}})

\* the variables the text functions do not use
idleVars ==
  << argv, options, runVars, permits, waitQueue, called, proceeded, released >>

\* initialize() calls loadWordList: the file is read, or the fallback is used
LoadWordList ==
  /\ wordList = {}
  /\ wordList' \in {FallbackWords} \cup {LoadedWords(f) : f \in WordFiles}
  /\ UNCHANGED << idleVars, textIn, textOut, widgets, questions, domVars >>

\* smartCleanText(textIn)
SmartClean ==
  /\ wordList # {}
  /\ textOut = Null
  /\ textOut' = SmartCleanText(textIn, wordList)
  /\ UNCHANGED << idleVars, wordList, textIn, widgets, questions, domVars >>

\* extractCommonQuestions returns the paragraphs of the page, and
\* scrapeDetailedSections stores them with their bodies enhanced
CommonQuestions ==
  /\ wordList # {}
  /\ questions = NoQuestions
  /\ questions' = [sections |-> CommonQuestionsSections(widgets, wordList)]
  /\ UNCHANGED << idleVars, wordList, textIn, textOut, widgets, domVars >>

\* no run of scrape()
InitIdle ==
  /\ argv = NoArgs
  /\ options \in [concurrency : {1}, delay : {0}, limit : {0}]
  /\ indexAnchors = << >>
  /\ site = RunSite
  /\ faults = 0
  /\ InitScrape
  /\ permits = 0
  /\ waitQueue = << >>
  /\ NoCallers

\* the words of the sentences given to smartCleanText
Vocabulary ==
  {<< "T", "a", "k", "e" >>, << "t", "h", "i", "s" >>, << "c", "r", "e", "a", "m" >>,
   << "f", "o", "r" >>, << "s", "o", "f", "t" >>, << "t", "i", "s", "s", "u", "e" >>,
   << "p", "a", "i", "n" >>}

\* the sentences of n words of the vocabulary with one space between two words
RECURSIVE Sentences(_)
Sentences(n) ==
  IF n = 1 THEN Vocabulary
  ELSE {s \o << " " >> \o w : s \in Sentences(n - 1), w \in Vocabulary}

InitClean ==
  /\ InitIdle
  /\ NoDom
  /\ wordList = {}
  /\ textIn \in UNION {Sentences(n) : n \in 1..MaxWords}
  /\ textOut = Null
  /\ widgets = << >>
  /\ questions = NoQuestions

NextClean == LoadWordList \/ SmartClean

CleanSpec == InitClean /\ [][NextClean]_vars

\* the details elements of the pages given to extractCommonQuestions
WidgetKinds ==
  {[summary |-> << "C", "a", "n", " ", "I", " ", "t", "a", "k", "e", " ", "i", "t", " ", "w", "i", "t", "h", " ", "i", "b", "u", "p", "r", "o", "f", "e", "n", "?" >>,
    answer  |-> << "Y", "e", "s", ",", " ", "t", "h", "i", "s", " ", "i", "s", " ", "u", "s", "u", "a", "l", "l", "y", " ", "s", "a", "f", "e", "." >>],
   [summary |-> << "W", "h", "y", "?" >>,
    answer  |-> << "B", "e", "c", "a", "u", "s", "e", " ", "i", "t", " ", "i", "s", " ", "u", "s", "u", "a", "l", "l", "y", " ", "s", "a", "f", "e", "." >>],
   [summary |-> << "I", "s", " ", "i", "t", " ", "s", "a", "f", "e", "?" >>,
    answer  |-> << "Y", "e", "s", "." >>],
   [summary |-> << "I", "s", " ", "i", "t", " ", "a", "d", "d", "i", "c", "t", "i", "v", "e", "?" >>,
    answer  |-> NoElement],
   [summary |-> << "W", "i", "l", "l", " ", "i", "t", " ", "a", "f", "f", "e", "c", "t", " ", "m", "y", " ", "h", "e", "a", "r", "t", "?" >>,
    answer  |-> << "N", "o", ",", " ", "i", "t", " ", "i", "s", " ", "s", "a", "f", "e", " ", "f", "o", "r", " ", "a", "d", "u", "l", "t", "s", "." >>],
   [summary |-> << "C", "a", "n", " ", "I", " ", "d", "r", "i", "n", "k", " ", "a", "l", "c", "o", "h", "o", "l", "?" >>,
    answer  |-> << "I", "t", " ", "i", "s", " ", "s", "a", "f", "e", " ", "b", "u", "t", " ", "a", "s", "k", " ", "y", "o", "u", "r", " ", "d", "o", "c", "t", "o", "r", "." >>]}

InitQuestions ==
  /\ InitIdle
  /\ NoDom
  /\ wordList = {}
  /\ textIn = << >>
  /\ textOut = Null
  /\ widgets \in UNION {[1..n -> WidgetKinds] : n \in 0..MaxWidgets}
  /\ questions = NoQuestions

NextQuestions == LoadWordList \/ CommonQuestions

QuestionsSpec == InitQuestions /\ [][NextQuestions]_vars

\* the words of the sentences given to enhanceGrammar
GrammarWords ==
  {<< "y", "o", "u" >>,
   << "a", "r", "e" >>,
   << "h", "a", "v", "e" >>,
   << "c", "a", "n" >>,
   << "s", "h", "o", "u", "l", "d" >>,
   << "w", "i", "l", "l" >>,
   << "m", "a", "y" >>,
   << "t", "a", "k", "e" >>}

\* the sentences of n of the words with one space between two words
RECURSIVE Phrases(_, _)
Phrases(words, n) ==
  IF n = 1 THEN words
  ELSE {s \o << " " >> \o w : s \in Phrases(words, n - 1), w \in words}

InitGrammar ==
  /\ InitIdle
  /\ NoDom
  /\ wordList = {}
  /\ textIn \in UNION {Phrases(GrammarWords, n) : n \in 1..MaxWords}
  /\ textOut = Null
  /\ widgets = << >>
  /\ questions = NoQuestions

\* enhanceGrammar(textIn)
Enhance ==
  /\ wordList # {}
  /\ textOut = Null
  /\ textOut' = EnhanceGrammar(textIn, wordList)
  /\ UNCHANGED << idleVars, wordList, textIn, widgets, questions, domVars >>

NextGrammar == LoadWordList \/ Enhance

GrammarSpec == InitGrammar /\ [][NextGrammar]_vars

(***************************************************************************)
(* One page.evaluate alone, on the elements of its page.                   *)
(***************************************************************************)
\* the anchors of the detail pages given to getSectionLinks
SectionHrefs ==
  { [origin |-> "", path |-> MedicineHref(1).path \o << "about", "/" >>, hash |-> ""],
    [origin |-> "", path |-> MedicineHref(1).path \o << "side-effects", "/" >>, hash |-> ""],
    [origin |-> "", path |-> MedicineHref(1).path \o << "common-questions", "/" >>,
     hash |-> ""],
    [origin |-> "", path |-> << "/", "conditions", "/" >>, hash |-> ""] }

SectionAnchorTexts ==
  { << >>,
    << "A", "b", "o", "u", "t", " ", "a", "s", "p", "i", "r", "i", "n" >>,
    << "S", "i", "d", "e", " ", "e", "f", "f", "e", "c", "t", "s", " ", "o", "f", " ", "a", "s", "p", "i", "r", "i", "n" >>,
    << "C", "o", "m", "m", "o", "n", " ", "q", "u", "e", "s", "t", "i", "o", "n", "s", " ", "a", "b", "o", "u", "t", " ", "a", "s", "p", "i", "r", "i", "n" >> }

SectionAnchorPool == [href : SectionHrefs, text : SectionAnchorTexts]

InitSectionLinks ==
  /\ InitIdle
  /\ NoText
  /\ dom \in UNION { [1..n -> SectionAnchorPool] : n \in 0..MaxAnchors }
  /\ evaluated = NotEvaluated

\* page.evaluate of getSectionLinks returns the link map of the page
EvaluateSectionLinks ==
  /\ evaluated = NotEvaluated
  /\ evaluated' = [links |-> SectionLinks(dom)]
  /\ UNCHANGED << idleVars, textVars, dom >>

NextSectionLinks == EvaluateSectionLinks

SectionLinksSpec == InitSectionLinks /\ [][NextSectionLinks]_vars

\* cleanText inside page.evaluate of scrapeMedicineDetails: the same steps as
\* the one of extractCommonQuestions
DetailCleanText(text) == PageCleanText(text)

UnknownMedicine == << "U", "n", "k", "n", "o", "w", "n", " ", "M", "e", "d", "i", "c", "i", "n", "e" >>
HyphenSep == << " ", "-", " " >>
EnDashSep == << " ", EnDash, " " >>

\* name.split(/ - | – /)[0]
BeforeSeparator(name) ==
  IF \E k \in 1..(Len(name) - 2) : SubSeq(name, k, k + 2) \in {HyphenSep, EnDashSep}
  THEN SubSeq(name, 1,
              (CHOOSE k \in 1..(Len(name) - 2) :
                 /\ SubSeq(name, k, k + 2) \in {HyphenSep, EnDashSep}
                 /\ \A j \in 1..(k - 1) :
                      SubSeq(name, j, j + 2) \notin {HyphenSep, EnDashSep}) - 1)
  ELSE name

\* the name page.evaluate of scrapeMedicineDetails returns for a page whose
\* heading has the text content h1, NoElement when the page has no heading
HeadingName(h1) ==
  The({IF Includes(name, HyphenSep) \/ Includes(name, EnDashSep)
       THEN Trim(BeforeSeparator(name)) ELSE name
       : name \in {IF h1 = NoElement \/ DetailCleanText(h1) = UndefinedText
                   THEN UnknownMedicine ELSE DetailCleanText(h1)}})

\* the headings of the detail pages: a name, or a name, a separator and a brand
HeadingNames == {<< "A", "s", "p", "i", "r", "i", "n" >>,
                 << "C", "o", "-", "c", "o", "d", "a", "m", "o", "l" >>}
HeadingBrands == {<< "D", "i", "s", "p", "r", "i", "n" >>,
                  << "B", "r", "a", "n", "d" >>,
                  << "B", "r", "a", "n", "d", " ", "n", "a", "m", "e", "s", ":", " ", "K", "a", "p", "a", "k", "e", ",", " ", "S", "o", "l", "p", "a", "d", "o", "l" >>}
HeadingSeparators ==
  {HyphenSep, EnDashSep, << " ", EmDash, " " >>, << "-" >>, << " ", "-", " ", " " >>}
HeadingPads == {<< >>, << "\n", " " >>}
Headings ==
  {NoElement, << >>}
  \cup {pad \o n \o pad : n \in HeadingNames, pad \in HeadingPads}
  \cup {pad \o n \o sep \o b \o pad :
          n \in HeadingNames, sep \in HeadingSeparators, b \in HeadingBrands,
          pad \in HeadingPads}

InitName ==
  /\ InitIdle
  /\ NoText
  /\ dom \in Headings
  /\ evaluated = NotEvaluated

\* page.evaluate of scrapeMedicineDetails returns the name of the page
EvaluateName ==
  /\ evaluated = NotEvaluated
  /\ evaluated' = [name |-> HeadingName(dom)]
  /\ UNCHANGED << idleVars, textVars, dom >>

NextName == EvaluateName

NameSpec == InitName /\ [][NextName]_vars

\* cleanText inside page.evaluate of extractSectionContent: the same steps as
\* the one of extractCommonQuestions
SectionCleanText(text) == PageCleanText(text)

\* an element is [tag, text], text being its textContent
IsHeading(e) == e.tag \in {"h1", "h2", "h3", "h4", "h5", "h6"}

\* the phrases a title must not include
Denylist ==
  {<< "P", "a", "g", "e", " ", "l", "a", "s", "t", " ", "r", "e", "v", "i", "e", "w", "e", "d" >>,
   << "N", "e", "x", "t", " ", "r", "e", "v", "i", "e", "w", " ", "d", "u", "e" >>,
   << "H", "e", "a", "l", "t", "h", " ", "A", " ", "t", "o", " ", "Z" >>,
   << "N", "H", "S", " ", "s", "e", "r", "v", "i", "c", "e", "s" >>,
   << "S", "u", "p", "p", "o", "r", "t", " ", "l", "i", "n", "k", "s" >>,
   << "C", "o", "o", "k", "i", "e", "s" >>,
   << "M", "o", "r", "e", " ", "i", "n", " " >>,
   << "H", "e", "l", "p", " ", "u", "s", " ", "i", "m", "p", "r", "o", "v", "e" >>,
   << "C", "a", "n", " ", "y", "o", "u", " ", "a", "n", "s", "w", "e", "r" >>,
   << "T", "a", "k", "e", " ", "o", "u", "r", " ", "s", "u", "r", "v", "e", "y" >>}

\* the test of a title in headings.forEach
TitleOk(title) ==
  /\ title # UndefinedText
  /\ Len(title) > 3
  /\ \A d \in Denylist : ~Includes(title, d)

\* the walk over the siblings going on over the headings
RECURSIVE WalkSiblingsOverHeadings(_, _, _)
WalkSiblingsOverHeadings(els, k, content) ==
  IF k > Len(els) THEN content
  ELSE The({WalkSiblingsOverHeadings(els, k + 1,
                         IF text # UndefinedText /\ Len(text) > 10
                         THEN content \o text \o << " " >> ELSE content)
            : text \in {SectionCleanText(els[k].text)}})

\* the while loop over the siblings of a heading, from the element k of the
\* children els of its parent, with the content gathered so far
RECURSIVE WalkSiblings(_, _, _)
WalkSiblings(els, k, content) ==
  IF k > Len(els) \/ IsHeading(els[k]) THEN content
  ELSE The({WalkSiblings(els, k + 1,
                         IF text # UndefinedText /\ Len(text) > 10
                         THEN content \o text \o << " " >> ELSE content)
            : text \in {SectionCleanText(els[k].text)}})

\* headings.forEach(...), from the element k on
RECURSIVE HeadingParagraphs(_, _)
HeadingParagraphs(els, k) ==
  IF k > Len(els) THEN << >>
  ELSE The({(IF IsHeading(els[k]) /\ TitleOk(title) /\ Len(Trim(content)) > 20
             THEN << [paragraphTitle |-> title, paragraphText |-> Trim(content)] >>
             ELSE << >>)
            \o HeadingParagraphs(els, k + 1)
            : title \in {SectionCleanText(els[k].text)},
              content \in {WalkSiblings(els, k + 1, << >>)}})

\* the elements of the section pages given to extractSectionContent
ElementPool ==
  { [tag |-> "h2", text |-> << "D", "o", "s", "e" >>],
    [tag |-> "h2", text |-> << "U", "s", "e" >>],
    [tag |-> "h3", text |-> << "H", "o", "w", " ", "t", "o", " ", "t", "a", "k", "e", " ", "i", "t" >>],
    [tag |-> "h2", text |-> << "M", "o", "r", "e", " ", "i", "n", " ", "A", "s", "p", "i", "r", "i", "n" >>],
    [tag |-> "p", text |-> << >>],
    [tag |-> "p", text |-> << "T", "a", "k", "e", " ", "i", "t", "." >>],
    [tag |-> "p", text |-> << " ", "T", "a", "k", "e", " ", "o", "n", "e", " ", "t", "a", "b", "l", "e", "t", ".", "\n" >>],
    [tag |-> "ul", text |-> << "S", "w", "a", "l", "l", "o", "w", " ", "t", "h", "e", " ", "t", "a", "b", "l", "e", "t", " ", "w", "h", "o", "l", "e", " ", "w", "i", "t", "h", " ", "w", "a", "t", "e", "r", "." >>] }

InitSection ==
  /\ InitIdle
  /\ NoText
  /\ dom \in UNION { [1..n -> ElementPool] : n \in 0..MaxElements }
  /\ evaluated = NotEvaluated

\* page.evaluate of extractSectionContent returns the paragraphs of the page
EvaluateSection ==
  /\ evaluated = NotEvaluated
  /\ evaluated' = [sections |-> HeadingParagraphs(dom, 1)]
  /\ UNCHANGED << idleVars, textVars, dom >>

NextSection == EvaluateSection

SectionSpec == InitSection /\ [][NextSection]_vars

(***************************************************************************)
(* Properties of a run.                                                    *)
(***************************************************************************)
\* the tasks that have acquired a permit and not released it
InFlight == {i \in Tasks : pc[i] \in {"stageA", "stageB", "closeA", "section", "delayIn"}}

\* how often x occurs in a sequence
Occ(seq, x) == Cardinality({k \in DOMAIN seq : seq[k] = x})

\* the links whose detail page failed in stage A (load, evaluation or close)
StageAFailed == {i \in Tasks : hist[i].stageA = "fail" \/ hist[i].closeA = "fail"}

\* the records of the result for the i-th link to process
RecordsOf(i) ==
  {k \in DOMAIN result.medicines : result.medicines[k].url = linksToProcess[i].url}

\* C1: at every moment the number of tasks that hold a permit is at most the
\* capacity of the semaphore
C1_PermitBound == Cardinality(InFlight) <= options.concurrency

\* two tasks hold the two permits, one of them a task that had to wait
C1_Witness ==
  /\ options.concurrency = 2
  /\ Cardinality(InFlight) = 2
  /\ \E i \in InFlight : i > options.concurrency

\* C2: the callers of acquire() proceed in the order of their calls: the first
\* K without waiting, one more with each release(), the others wait in order
C2_Fifo ==
  /\ proceeded = [k \in 1..Len(proceeded) |-> k]
  /\ Len(proceeded) = Min(called, options.concurrency + Cardinality(released))
  /\ waitQueue = [k \in 1..(called - Len(proceeded)) |-> Len(proceeded) + k]

\* capacity 2 and 5 callers: one release() has admitted the third caller
C2_Witness ==
  /\ options.concurrency = 2
  /\ called = 5
  /\ Cardinality(released) = 1
  /\ proceeded = << 1, 2, 3 >>
  /\ waitQueue = << 4, 5 >>

\* C3: in a result, scrapedMedicines is the number of records, records plus
\* failed names are the attempted links, and every attempted link has either
\* one record or one failed name
C3_Accounting ==
  result # NoResult =>
    /\ result.scrapedMedicines = Len(result.medicines)
    /\ result.scrapedMedicines + Len(result.failedMedicines) = Len(linksToProcess)
    /\ \A i \in DOMAIN linksToProcess :
         /\ Cardinality(RecordsOf(i)) <= 1
         /\ Occ(result.failedMedicines, linksToProcess[i].name)
              = Cardinality({j \in DOMAIN linksToProcess :
                               /\ linksToProcess[j].name = linksToProcess[i].name
                               /\ RecordsOf(j) = {}})

\* a returned result of a capped run with a record and a failed name
C3_Witness ==
  /\ pcMain = "returned"
  /\ Len(linksToProcess) < Len(medicineLinks)
  /\ Len(result.medicines) >= 1
  /\ Len(result.failedMedicines) >= 1

\* C4 as claimed: with n links in the catalog and F the links whose stage A
\* fails, the result has totalFound = n, succeeded = items.length = n - |F|
C4_AsClaimed ==
  result # NoResult =>
    /\ result.totalMedicines = Len(medicineLinks)
    /\ result.scrapedMedicines = Len(medicineLinks) - Cardinality(StageAFailed)
    /\ Len(result.medicines) = Len(medicineLinks) - Cardinality(StageAFailed)

\* C4 as amended: with n links in the catalog, a of them attempted (n without a
\* cap, min(L, n) with the cap L) and F the attempted links whose stage A
\* fails, the tasks all end, the result has totalFound = n and
\* succeeded = items.length = a - |F|, the failed names are the names of the
\* links of F, each once, and no link of F has a record
C4_FailedItems ==
  /\ (pcMain = "awaitAll" => \E i \in Tasks : pc[i] # "done")
  /\ result # NoResult =>
       LET n == Len(medicineLinks)
           a == IF options.limit > 0 THEN Min(options.limit, n) ELSE n
       IN  /\ Len(linksToProcess) = a
           /\ result.totalMedicines = n
           /\ result.scrapedMedicines = a - Cardinality(StageAFailed)
           /\ Len(result.medicines) = a - Cardinality(StageAFailed)
           /\ \A i \in StageAFailed : RecordsOf(i) = {}
           /\ \A i \in Tasks \ StageAFailed : RecordsOf(i) # {}
           /\ Len(result.failedMedicines) = Cardinality(StageAFailed)
           /\ \A i \in Tasks :
                Occ(result.failedMedicines, linksToProcess[i].name)
                  = Cardinality({j \in StageAFailed :
                                   linksToProcess[j].name = linksToProcess[i].name})

\* three links, the load of the third fails: two records, one failed name
C4_Witness ==
  /\ pcMain = "returned"
  /\ Len(medicineLinks) = 3
  /\ Len(linksToProcess) = 3
  /\ StageAFailed = {3}
  /\ hist[3].stageA = "fail"
  /\ result.totalMedicines = 3
  /\ result.scrapedMedicines = 2
  /\ Len(result.medicines) = 2
  /\ result.failedMedicines = << linksToProcess[3].name >>

\* a step of the task of the i-th link
TaskNext(i) ==
  \/ StageAFail(i)
  \/ StageADone(i)
  \/ StageBFail(i)
  \/ StageBDone(i)
  \/ CloseAFail(i)
  \/ CloseADone(i)
  \/ SectionDone(i)
  \/ SectionFail(i)
  \/ DelayInDone(i)
  \/ DelayOutDone(i)

\* a run without cap
InitLive ==
  /\ argv = NoArgs
  /\ options \in [concurrency : 1..MaxPermits, delay : {0, DefaultDelay}, limit : {0}]
  /\ \E n \in 0..MaxLiveLinks : indexAnchors = RunIndexPage(n)
  /\ site = RunSite
  /\ faults = MaxFaults
  /\ InitRunState

\* every page operation and every timer a task awaits ends
LiveSpec == InitLive /\ [][Next]_vars /\ \A i \in TaskIds : WF_vars(TaskNext(i))

\* C5: every attempted item ends, having held a permit, and the result is
\* built, whichever items fail
C5_Progress ==
  /\ \A i \in TaskIds : (i \in Tasks) ~> (i \in Tasks /\ pc[i] = "done")
  /\ (pcMain = "awaitAll") ~> (result # NoResult)

\* every item failed, and there were more items than permits
C5_Witness ==
  /\ pcMain = "returned"
  /\ result.medicines = << >>
  /\ Len(result.failedMedicines) > options.concurrency

\* C6: when the index page fails, scrape throws, there is no task, no permit
\* is taken, no detail page is opened, and no result is built or saved
C6_IndexFailure ==
  error = "index" =>
    /\ pcMain = "threw"
    /\ pc = << >>
    /\ hist = << >>
    /\ permits = 0
    /\ waitQueue = << >>
    /\ medicines = << >>
    /\ failedMedicines = << >>
    /\ processedCount = 0
    /\ result = NoResult
    /\ saved = NoResult

\* the index page has failed
C6_Witness == error = "index" /\ pcMain = "threw"


\* the if-blocks of scrapeDetailedSections whose extraction has returned
Extracted(i) ==
  {k \in hist[i].fetched : ~(pc[i] = "section" /\ cur[i] = k)}

\* C7: a section whose extraction failed has no paragraphs and the url of its
\* link, the item is returned as a record and not as a failure, and every other
\* section holds what its own extraction returned, or its initial value
C7_SectionFailure ==
  \A i \in Tasks : \A k \in hist[i].failed :
    /\ ret[i] # "null"
    /\ medicine[i] # NoMedicine
    /\ sectionLinks[i][LinkKeys[k]] # Undefined
    /\ medicine[i][Slots[k]] =
         [sections |-> << >>, url |-> sectionLinks[i][LinkKeys[k]]]
    /\ \A j \in (1..Len(Slots)) \ hist[i].failed :
         medicine[i][Slots[j]] =
           [sections |-> IF j \in Extracted(i)
                         THEN EnhanceAll(hist[i].extracted[j]) ELSE << >>,
            url      |-> sectionLinks[i][LinkKeys[j]]]
    /\ ret[i] = "medicine" =>
         /\ \E r \in DOMAIN medicines : medicines[r] = medicine[i]
         /\ \A f \in DOMAIN failedMedicines :
              failedMedicines[f] # linksToProcess[i].name

\* an item returned with one failed section and another section with a paragraph
C7_Witness ==
  \E i \in Tasks :
    /\ ret[i] = "medicine"
    /\ \E k \in hist[i].failed :
         medicine[i][Slots[k]].url = sectionLinks[i][LinkKeys[k]]
    /\ \E j \in Extracted(i) \ hist[i].failed :
         medicine[i][Slots[j]].sections # << >>

\* C8: when getSectionLinks fails, the link map is empty, no section page is
\* fetched, and the item is returned with the fields of stage A and seven
\* sections without paragraphs and without url, unless the close of the page
\* of stage A fails
C8_ScanFailure ==
  \A i \in Tasks :
    hist[i].stageB = "fail" =>
      /\ sectionLinks[i] = NoLinks
      /\ hist[i].fetched = {}
      /\ pc[i] # "section"
      /\ ret[i] = "null" => hist[i].closeA = "fail"
      /\ ret[i] = "medicine" =>
           /\ medicine[i].name = PageInfo(linksToProcess[i]).name
           /\ medicine[i].url = linksToProcess[i].url
           /\ medicine[i].summary = Enhanced(PageInfo(linksToProcess[i]).summary)
           /\ \A s \in SlotSet :
                medicine[i][s] = [sections |-> << >>, url |-> Undefined]
           /\ \E r \in DOMAIN medicines : medicines[r] = medicine[i]
           /\ failedMedicines = << >>

\* an item returned after its scan for section links failed
C8_Witness ==
  \E i \in Tasks :
    /\ hist[i].stageB = "fail"
    /\ ret[i] = "medicine"
    /\ pcMain = "returned"
    /\ Len(result.medicines) = 1

\* C9: every record has the seven section slots, each with a list of
\* paragraphs, whichever links were found and whichever extractions failed
C9_SevenSlots ==
  /\ result # NoResult => result.medicines = medicines
  /\ \A r \in DOMAIN medicines :
       /\ SlotSet \subseteq DOMAIN medicines[r]
       /\ \A s \in SlotSet :
            /\ "sections" \in DOMAIN medicines[r][s]
            /\ DOMAIN medicines[r][s].sections = 1..Len(medicines[r][s].sections)
            /\ \A p \in DOMAIN medicines[r][s].sections :
                 DOMAIN medicines[r][s].sections[p]
                   = {"paragraphTitle", "paragraphText"}

\* a record with a slot filled, a slot whose extraction failed and a slot
\* without link
C9_Witness ==
  \E r \in DOMAIN medicines :
    /\ \E s \in SlotSet : medicines[r][s].sections # << >>
    /\ \E s \in SlotSet :
         medicines[r][s].sections = << >> /\ medicines[r][s].url # Undefined
    /\ \E s \in SlotSet : medicines[r][s].url = Undefined

\* the anchors of the index page the catalog takes
Accepted(a) == isMed(a) /\ isValid(AnchorName(a))

\* C10: the catalog has one entry for each URL of an accepted anchor, named by
\* the first accepted anchor of that URL, and no entry has an empty name
C10_Catalog ==
  pcMain = "listed" =>
    /\ \A j, k \in DOMAIN medicineLinks :
         medicineLinks[j].url = medicineLinks[k].url => j = k
    /\ \A k \in DOMAIN medicineLinks :
         /\ Truthy(medicineLinks[k].name)
         /\ \E p \in DOMAIN indexAnchors :
              /\ Accepted(indexAnchors[p])
              /\ ResolveUrl(indexAnchors[p].href, IndexLocation) = medicineLinks[k].url
              /\ medicineLinks[k].name = AnchorName(indexAnchors[p])
              /\ \A q \in 1..(p - 1) :
                   ~(/\ Accepted(indexAnchors[q])
                     /\ ResolveUrl(indexAnchors[q].href, IndexLocation)
                          = medicineLinks[k].url)
    /\ \A p \in DOMAIN indexAnchors :
         Accepted(indexAnchors[p]) =>
           \E k \in DOMAIN medicineLinks :
             medicineLinks[k].url = ResolveUrl(indexAnchors[p].href, IndexLocation)

\* an anchor without text, then an anchor with the text Aspirin to the same
\* URL: one entry, named Aspirin
C10_Witness ==
  /\ pcMain = "listed"
  /\ Len(indexAnchors) = 2
  /\ indexAnchors[1].text = << >>
  /\ indexAnchors[2].text = << "A","s","p","i","r","i","n" >>
  /\ isMed(indexAnchors[1])
  /\ ResolveUrl(indexAnchors[1].href, IndexLocation)
       = ResolveUrl(indexAnchors[2].href, IndexLocation)
  /\ Len(medicineLinks) = 1
  /\ medicineLinks[1].name = << "A","s","p","i","r","i","n" >>


\* the paths that end at the base path of the catalog, or one "/" after it
BasePaths == {MedicinesSeg, MedicinesSeg \o << "/" >>}

\* C11: an anchor whose resolved path is the base path of the catalog, or the
\* base path and "/", has no entry in the catalog, whatever its text
C11_BasePathExcluded ==
  pcMain = "listed" =>
    \A p \in DOMAIN indexAnchors :
      ResolveUrl(indexAnchors[p].href, IndexLocation).path \in BasePaths =>
        \A k \in DOMAIN medicineLinks :
          medicineLinks[k].url # ResolveUrl(indexAnchors[p].href, IndexLocation)

\* an anchor to the base path and an anchor to the base path and "/", both with
\* the text of a medicine, next to the anchor of a medicine: one entry
C11_Witness ==
  /\ pcMain = "listed"
  /\ Len(indexAnchors) = 3
  /\ indexAnchors[1].href.path = MedicinesSeg
  /\ indexAnchors[2].href.path = MedicinesSeg \o << "/" >>
  /\ \A p \in 1..3 : indexAnchors[p].text = << "A","s","p","i","r","i","n" >>
  /\ Len(medicineLinks) = 1
  /\ medicineLinks[1].url = ResolveUrl(indexAnchors[3].href, IndexLocation)


\* the options main() has parsed from the command line
Parsed == ParseArgs(argv)

\* C12 as claimed: run with --concurrency N, at most N extractions are in
\* flight; run without it, at most the default 3
C12_AsClaimed ==
  Cardinality(InFlight) <=
    (IF "maxConcurrency" \in DOMAIN Parsed THEN Parsed.maxConcurrency
     ELSE DefaultConcurrency)

\* C13 as claimed: run with --test, at most L links are attempted with
\* --limit L, and at most 10 without --limit
C13_AsClaimed ==
  "testMode" \in DOMAIN Parsed =>
    Len(linksToProcess) <=
      (IF "limit" \in DOMAIN Parsed THEN Parsed.limit ELSE DefaultLimitArg)


\* C15 as claimed: the result is written to the path given with --output, and
\* to nhs-medicines.json only when no path is given
C15_AsClaimed ==
  outputPath # NoPath =>
    outputPath =
      (IF "outputFile" \in DOMAIN Parsed /\ Parsed.outputFile # NoToken
       THEN Parsed.outputFile ELSE OutputFile)


\* C14: once the catalog is fetched, the links to process are the first
\* min(L, n) links of the catalog, in its order, under a cap L > 0, and the
\* whole catalog under the cap 0; there is one task per link to process, every
\* record and every failed name is of a link to process, and totalMedicines in
\* the result is the size of the catalog
C14_Cap ==
  pcMain \in {"awaitAll", "saving", "returned"} =>
    /\ linksToProcess =
         [k \in 1..(IF options.limit > 0
                    THEN Min(options.limit, Len(medicineLinks))
                    ELSE Len(medicineLinks)) |-> medicineLinks[k]]
    /\ Len(pc) = Len(linksToProcess)
    /\ \A r \in DOMAIN medicines :
         \E k \in DOMAIN linksToProcess : medicines[r].url = linksToProcess[k].url
    /\ \A f \in DOMAIN failedMedicines :
         \E k \in DOMAIN linksToProcess : failedMedicines[f] = linksToProcess[k].name
    /\ \A k \in DOMAIN linksToProcess : hist[k].stageA # "none" \/ pc[k] \in {"queued", "stageA"}
    /\ result # NoResult => result.totalMedicines = Len(medicineLinks)

\* a run returned under a cap smaller than its catalog
C14_Witness ==
  /\ pcMain = "returned"
  /\ options.limit = 2
  /\ Len(medicineLinks) = 3
  /\ Len(linksToProcess) = 2
  /\ linksToProcess[1] = medicineLinks[1]
  /\ linksToProcess[2] = medicineLinks[2]
  /\ result.totalMedicines = 3
  /\ Len(result.medicines) + Len(result.failedMedicines) = 2

\* C16: no operation is retried: no two navigations of a run are the same
\* navigation (the same url in the same stage), for one task or for two; the
\* task whose detail page failed to load navigated once and never again; a
\* task navigates its detail page at most once in stage A and once in stage B,
\* and each section link of its map at most once
NavsOf(i, stage) ==
  {n \in DOMAIN hist[i].navs : hist[i].navs[n].stage = stage}

Settled == {i \in Tasks : ret[i] # "pending"}

\* C17: every task whose extraction has returned, with a record or with null,
\* has incremented the processed count once and has logged one progress line;
\* the counts the tasks of a call have seen are distinct and are the last ones
\* up to the processed count, so that the count grows by the number of links
\* to process in a call
C17_AsClaimed ==
  /\ \A i \in Settled :
       /\ hist[i].progress.logged
       /\ hist[i].progress.count > processedCount - Cardinality(Settled)
       /\ hist[i].progress.count <= processedCount
  /\ \A i \in Settled, j \in Settled :
       i # j => hist[i].progress.count # hist[j].progress.count

\* C18: at every progress line of every call of scrape() the processed count
\* is at least 1 and at most the number of links to process, the remaining
\* count is not negative and the percentage is at most 100
C18_AsClaimed ==
  \A i \in Settled :
    /\ 1 <= hist[i].progress.count
    /\ hist[i].progress.count <= hist[i].progress.total
    /\ Len(linksToProcess) - hist[i].progress.count >= 0
    /\ hist[i].progress.percentage <= 100

\* C19: smartCleanText returns a sentence of complete words with one space
\* between two words as it is, with the word list of the file or the fallback
C19_AsClaimed == textOut # Null => textOut = textIn

\* the paragraph of a widget as the page shows it
AsShown(w) == [paragraphTitle |-> w.summary, paragraphText |-> w.answer]

\* a widget with its two elements, a prompt of more than 5 characters and a
\* payload of more than 10
Kept(w) ==
  /\ w.summary # NoElement
  /\ w.answer # NoElement
  /\ Len(w.summary) > 5
  /\ Len(w.answer) > 10

\* C20: the sections stored from a common questions page are, in the order of
\* the page, one paragraph for each widget whose prompt has more than 5
\* characters and whose payload has more than 10, with the prompt as title and
\* the payload as body when the texts have no lost boundaries
C20_AsClaimed ==
  questions # NoQuestions =>
    \E kept \in {SelectSeq(widgets, Kept)} :
      questions.sections = [k \in 1..Len(kept) |-> AsShown(kept[k])]

\* the if-chain of getSectionLinks puts the anchor a under the key
InCategory(a, key) ==
  /\ Includes(a.href.path, MedicinesSeg)
  /\ SectionLinkStep(NoLinks, a)[key] # Undefined

\* C21: the link stored for a category is the one of the first anchor of the
\* page, in document order, that the if-chain puts under the category; a
\* category no anchor falls under has no link
C21_AsClaimed ==
  evaluated # NotEvaluated =>
    \A key \in LinkKeySet :
      \E hits \in {{p \in DOMAIN dom : InCategory(dom[p], key)}} :
        evaluated.links[key] =
          IF hits = {} THEN Undefined
          ELSE FullUrl(dom[CHOOSE p \in hits : \A q \in hits : p <= q].href)

\* the tasks that are loading, reading or closing a page
AtWork == {i \in Tasks : pc[i] \in {"stageA", "stageB", "closeA", "section"}}

\* C22: no task holds a permit while it waits in a delay: once the tasks are
\* made, every permit that is taken is held by a task that is at work on a page
C22_AsClaimed ==
  pc # << >> => options.concurrency - permits <= Cardinality(AtWork)

\* a text between two spaces, so that a word is found by the spaces around it
Padded(s) == << " " >> \o s \o << " " >>

\* the text holds "you" followed by the word v
YouThen(s, v) == Includes(Padded(s), << " ", "y", "o", "u", " " >> \o v \o << " " >>)

\* C23: enhanceGrammar turns "you " followed by are, have, can, should, will or
\* may into "you're " followed by that word, and leaves a sentence without
\* such a pair as it is
C23_AsClaimed ==
  textOut # Null =>
    /\ \A v \in AuxVerbs :
         YouThen(textIn, v) =>
           Includes(Padded(textOut),
                    << " ", "y", "o", "u", "'", "r", "e", " " >> \o v \o << " " >>)
    /\ (\A v \in AuxVerbs : ~YouThen(textIn, v)) => textOut = textIn

\* C24: the name of a page whose heading is a name, a separator ' - ' or ' – '
\* and a brand is the name alone
C24_AsClaimed ==
  evaluated # NotEvaluated =>
    \A n \in HeadingNames, sep \in {HyphenSep, EnDashSep}, b \in HeadingBrands,
       pad \in HeadingPads :
      dom = pad \o n \o sep \o b \o pad => evaluated.name = n

\* the position of the first heading of the page after position p, one more
\* than the number of elements when there is none
HeadingAfter(p) ==
  IF \E q \in (p + 1)..Len(dom) : IsHeading(dom[q])
  THEN CHOOSE q \in (p + 1)..Len(dom) :
         IsHeading(dom[q]) /\ \A r \in (p + 1)..(q - 1) : ~IsHeading(dom[r])
  ELSE Len(dom) + 1

\* the fragments of longer than 10 of the positions lo..hi, with a space
\* between two of them
RECURSIVE JoinedFragments(_, _)
JoinedFragments(lo, hi) ==
  IF lo > hi THEN << >>
  ELSE IF SectionCleanText(dom[lo].text) # UndefinedText
          /\ Len(SectionCleanText(dom[lo].text)) > 10
  THEN (IF JoinedFragments(lo + 1, hi) = << >>
        THEN SectionCleanText(dom[lo].text)
        ELSE SectionCleanText(dom[lo].text) \o << " " >> \o JoinedFragments(lo + 1, hi))
  ELSE JoinedFragments(lo + 1, hi)

\* the body of the heading at position p
BodyOf(p) == JoinedFragments(p + 1, HeadingAfter(p) - 1)

\* the headings that give a pair
Qualifying ==
  {p \in DOMAIN dom :
     /\ IsHeading(dom[p])
     /\ TitleOk(SectionCleanText(dom[p].text))
     /\ Len(BodyOf(p)) > 20}

\* C25: the paragraphs of a section page are, in document order, one pair
\* for each heading whose title is longer than 3 and holds no phrase of the
\* denylist and whose body, the fragments longer than 10 of the siblings
\* before the next heading with one space between them, is longer than 20
C25_HeadingWalk ==
  evaluated # NotEvaluated =>
    /\ Len(evaluated.sections) = Cardinality(Qualifying)
    /\ \A p \in Qualifying :
         evaluated.sections[Cardinality({q \in Qualifying : q < p}) + 1] =
           [paragraphTitle |-> SectionCleanText(dom[p].text),
            paragraphText  |-> BodyOf(p)]

C25_Witness ==
  /\ evaluated # NotEvaluated
  /\ Len(dom) = 3
  /\ IsHeading(dom[1]) /\ ~IsHeading(dom[2]) /\ IsHeading(dom[3])
  /\ Len(evaluated.sections) = 1
  /\ evaluated.sections[1].paragraphTitle = << "D", "o", "s", "e" >>

\* scrape() has made its semaphore and its tasks
SemaphoreMade ==
  \/ pcMain \in {"awaitAll", "saving", "returned"}
  \/ pcMain = "threw" /\ error # "index"

\* the permits are between 0 and K, the permits and the tasks that hold one
\* add up to K, and tasks wait only while there is no permit
SemaphoreSound ==
  SemaphoreMade =>
    /\ 0 <= permits /\ permits <= options.concurrency
    /\ permits + Cardinality(InFlight) = options.concurrency
    /\ (waitQueue # << >> => permits = 0)

\* a step that takes a waiter from the queue leaves the permits as they are
\* and puts the waiter, the first of the queue, to work
WakeKeepsPermits ==
  Len(waitQueue') < Len(waitQueue) =>
    /\ permits' = permits
    /\ waitQueue' = Tail(waitQueue)
    /\ Head(waitQueue) \in InFlight'

\* C26: whatever the tasks of a run have acquired and released, the permits
\* are between 0 and K, permits plus the number of tasks holding a permit is
\* K, the queue is non-empty only while permits = 0, and a release that wakes
\* a waiter leaves permits unchanged
C26_Semaphore == []SemaphoreSound /\ [][WakeKeepsPermits]_vars

\* a release has woken the second task while the third still waits
C26_Witness ==
  /\ options.concurrency = 1
  /\ permits = 0
  /\ waitQueue = << 3 >>
  /\ \E i \in Tasks : ret[i] # "pending"
  /\ \E i \in InFlight : i > options.concurrency

\* the pages of the task i that a catch has left open: a stage that failed in
\* page.goto or page.evaluate, after browser.newPage() had returned its page,
\* went to the catch of its operation, which does not close the page
LeftOpen(i) ==
  (IF hist[i].stageA = "fail" THEN 1 ELSE 0)
  + (IF hist[i].stageB = "fail" THEN 1 ELSE 0)
  + Cardinality(hist[i].failed)

\* the pages of the task i that are in use: the detail page from its newPage
\* to its close, the page of getSectionLinks and the page of a section
InUse(i) ==
  (IF pc[i] \in {"stageA", "stageB", "closeA"} THEN 1 ELSE 0)
  + (IF pc[i] \in {"stageB", "section"} THEN 1 ELSE 0)

RECURSIVE SumOver(_, _)
SumOver(F(_), S) ==
  IF S = {} THEN 0
  ELSE LET i == CHOOSE j \in S : TRUE IN F(i) + SumOver(F, S \ {i})

\* the pages that are open: the index page while getMedicineLinks runs and
\* the pages of the tasks
OpenPages ==
  (IF pcMain = "index" THEN 1 ELSE 0)
  + SumOver(InUse, Tasks) + SumOver(LeftOpen, Tasks)

\* C27: every page is closed by the operation that opened it, also when the
\* navigation or the extraction on it fails; no page is open when scrape() has
\* returned, and at most 2*K pages are open at any time
C27_AsClaimed ==
  /\ \A i \in Tasks : LeftOpen(i) = 0
  /\ (pcMain = "returned" => OpenPages = 0)
  /\ OpenPages <= 2 * options.concurrency

\* the tasks whose acquire() has returned
Admitted == {i \in Tasks : pc[i] # "queued"}

\* C28: the links are admitted in the order of the list to process: when the
\* task of a link holds or has held its permit, so does the task of every link
\* before it, and the tasks that wait are queued in the order of their links,
\* whatever the order in which the tasks complete
C28_CatalogOrder ==
  /\ \A i \in Tasks, j \in Tasks : i < j /\ j \in Admitted => i \in Admitted
  /\ waitQueue = [k \in 1..(Len(pc) - Cardinality(Admitted)) |->
                    Cardinality(Admitted) + k]

\* the second task has completed before the first, whose record is not made
\* yet, and the third task has been admitted after both
C28_Witness ==
  /\ options.concurrency = 2
  /\ Len(pc) = 3
  /\ ret[1] = "pending"
  /\ ret[2] = "medicine"
  /\ 1 \in InFlight
  /\ 3 \in Admitted
  /\ Len(medicines) >= 1
  /\ medicines[1].url = linksToProcess[2].url

====
